---- MODULE Spec2Model ----
(***************************************************************************)
(* Process supervision of the sst-mcp server.                              *)
(*                                                                         *)
(* Three kinds of operating-system process take part:                      *)
(*   - the MCP server (src/mcp-server.ts), one event loop, whose fields    *)
(*     sstProcess and logStream are the in-memory supervisor state;        *)
(*   - wrappers, one per successful start-sst-dev: `npx tsx start.ts`      *)
(*     (src/start.ts, second listing, lines 154-346), each with its own    *)
(*     childProcess variable, env.sh watcher and exit handler;             *)
(*   - dev processes, `npx sst dev --mode=mono`, spawned by a wrapper,     *)
(*     each with descendants of its own;                                   *)
(* and the short-lived stop script (src/stop.ts).  They share the PID      *)
(* file, the log file and the `*.server` marker of the state directory.    *)
(*                                                                         *)
(* One action is one synchronous segment of a handler: the code between    *)
(* two awaits (or between an event and the handler's return).              *)
(***************************************************************************)
EXTENDS Integers, Sequences, FiniteSets, TLC

\* Bounds of specification Spec (the whole supervisor).
MaxWrappers == 2     \* start.ts wrappers spawned by start-sst-dev
MaxSpawns == 2       \* dev processes spawned by all wrappers together
MaxInFlight == 1     \* startProcess invocations in flight in one wrapper

VARIABLES
  sstProcess,   \* MCPSSTServer.sstProcess: 0 (null) or the wrapper it refers to
  logStream,    \* MCPSSTServer.logStream: 0 (null) or the wrapper it was opened for
  logFile,      \* .sst/sst-mcp.log: the sequence of lifecycle markers in it
  pidFile,      \* .sst/sst-dev.pid: 0 (absent) or the PID written in it
  serverFile,   \* a `*.server` file exists in .sst (written by sst dev itself)
  wrappers,     \* wrapper id -> its state (start.ts module state)
  procs,        \* pid -> dev process state
  exitQ,        \* pids whose 'exit' event is pending in their wrapper
  closeQ,       \* wrappers whose 'close' event is pending in the server
  stop,         \* the stop script run in flight (src/stop.ts), or idle
  last,         \* the reply the step just taken sent, with what the handler saw; NoReply otherwise
  lim,          \* the bounds of the specification being checked (constant)
  quietStops,   \* consecutive completed stops that found the dev already stopped: 0, 1, or 2 for more
  workspaceB,   \* a second workspace root served by the same MCPSSTServer: its wrapper and its stop script
  envFile,      \* env.sh of the workspace: its text, as a sequence of characters and words
  logText       \* .sst/sst-mcp.log as getSSTLogs and getSSTErrors read it: whether it exists, its characters

WrapperIds == DOMAIN wrappers
Pids == DOMAIN procs

supVars == <<sstProcess, logStream, logFile, pidFile, serverFile, wrappers, procs,
             exitQ, closeQ, stop, last, lim, quietStops, workspaceB, envFile, logText>>

\* The timed commands (withTimeout, sstDeploy, runSSTCommand) and the workflow.
VARIABLES
  operationTimeouts,  \* MCPSSTServer.operationTimeouts: operation name -> timer
  cancelHandlers,     \* MCPSSTServer.cancelHandlers: key -> the call whose process it kills
  calls,              \* call id -> the state of one timed command call
  now,                \* Date.now(), in ms
  wf                  \* the sst-restart-for-infra invocation in flight, or idle

timedVars == <<operationTimeouts, cancelHandlers, calls, now>>

supVarsButLast == <<sstProcess, logStream, logFile, pidFile, serverFile, wrappers, procs,
                    exitQ, closeQ, stop, lim, quietStops, workspaceB, envFile, logText>>

vars == <<supVars, timedVars, wf>>

\* What an action of the supervisor leaves alone.
notSup == <<timedVars, wf>>

\* ------------------------------------------------------------------ helpers

NoReply == [op |-> "none"]
\* released (history): a stop-sst-dev has succeeded since the wrapper was
\* started and no start-sst-dev has started a wrapper since; afterStop, of a
\* startProcess invocation: the change of env.sh reached a released wrapper.
NoWrapper == [st |-> "none", child |-> 0, watching |-> FALSE, inv |-> <<>>,
              released |-> FALSE]
NoProc == [st |-> "none", desc |-> "none", owner |-> 0]
\* The second workspace: the wrapper the server spawned for it ("none", "run")
\* and whether a stop script is running on it.
NoWorkspaceB == [wrapper |-> "none", stopping |-> FALSE]
\* .sst/sst-mcp.log does not exist.
NoLogText == [exists |-> FALSE, text |-> <<>>]
\* The value of sstProcess and logStream when they belong to the second
\* workspace's wrapper (wrapper ids of the first workspace are 1, 2, ...).
HandleB == 0 - 1
StopIdle == [pc |-> "idle", by |-> "none", pid |-> 0, code |-> 0, out |-> <<>>,
             err |-> <<>>, sigs |-> <<>>, quiet |-> FALSE]

\* process.kill(pid, 0) succeeds: the process is still in the process table,
\* running ("live") or killed and not yet reaped ("dying").
InTable(p) == p \in Pids /\ procs[p].st \in {"live", "dying"}

LiveDevs == {p \in Pids : procs[p].st = "live"}

SpawnedDevs == {p \in Pids : procs[p].st # "none"}
SpawnedWrappers == {w \in WrapperIds : wrappers[w].st # "none"}

\* The PID the operating system gives the next dev process (PIDs are not reused
\* within a run of the model).
NextPid == Cardinality(SpawnedDevs) + 1
NextWrapper == Cardinality(SpawnedWrappers) + 1

RemoveAt(s, i) == [j \in 1..(Len(s) - 1) |-> IF j < i THEN s[j] ELSE s[j + 1]]

\* The state after the server's construction (18-62), in a workspace where no
\* dev process has been started; l bounds the run.
Init(l) ==
  /\ lim = l
  /\ sstProcess = 0
  /\ logStream = 0
  /\ logFile = <<>>
  /\ pidFile = 0
  /\ serverFile = FALSE
  /\ wrappers = [w \in 1..l.wrappers |-> NoWrapper]
  /\ procs = [p \in 1..l.spawns |-> NoProc]
  /\ exitQ = {}
  /\ closeQ = {}
  /\ stop = StopIdle
  /\ last = NoReply
  /\ quietStops = 0
  /\ workspaceB = NoWorkspaceB

\* ------------------------------------------------- server: start-sst-dev

\* What startSSTDev answers.  throwAt names the synchronous call of the try
\* block that throws, if any: "fs" (mkdirSync or unlinkSync, before the log
\* stream is opened) or "spawn" (spawn itself, after the start marker);
\* "async" is the spawn failure that spawn() does not throw (ENOENT, EACCES):
\* it returns a ChildProcess that will emit 'error', and startSSTDev goes on.
StartAnswer(throwAt) ==
  IF sstProcess # 0 THEN "already"
  ELSE IF throwAt \in {"fs", "spawn"} THEN "failed"
  ELSE "started"

\* A start that never takes the server for already running.
NeverAlreadyRunning == FALSE

\* Lines 615-624: the duplicate-start test reads the in-memory handle only.
AlreadyRunning == sstProcess # 0

\* The state change of startSSTDev (the function has no await: one segment).
startSSTDev(throwAt) ==
  IF AlreadyRunning THEN
    UNCHANGED <<sstProcess, logStream, logFile, wrappers>>
  ELSE IF throwAt = "fs" THEN
    \* catch (690-697): end the stream if any, clear the handle, rethrow
    /\ logStream' = 0
    /\ sstProcess' = 0
    /\ UNCHANGED <<logFile, wrappers>>
  ELSE IF throwAt = "spawn" THEN
    \* 632-639 ran: the log was unlinked and the start marker written
    /\ logFile' = << <<"DevStarted">> >>
    /\ logStream' = 0
    /\ sstProcess' = 0
    /\ UNCHANGED wrappers
  ELSE IF throwAt = "async" THEN
    \* 637-689 ran with a ChildProcess that never ran
    /\ NextWrapper <= lim.wrappers
    /\ logFile' = << <<"DevStarted">> >>
    /\ logStream' = NextWrapper
    /\ sstProcess' = NextWrapper
    /\ wrappers' = [wrappers EXCEPT ![NextWrapper] = [NoWrapper EXCEPT !.st = "spawnfail"]]
  ELSE
    /\ NextWrapper <= lim.wrappers
    /\ logFile' = << <<"DevStarted">> >>
    /\ logStream' = NextWrapper
    /\ sstProcess' = NextWrapper
    \* the wrapper's main() calls startProcess at once: childProcess is null,
    \* so the invocation is suspended at `await fsPromises.mkdir`
    /\ wrappers' = [w \in WrapperIds |->
                      IF w = NextWrapper
                      THEN [st |-> "run", child |-> 0, watching |-> FALSE,
                            inv |-> << [pc |-> "mkdir", pid |-> 0, initial |-> TRUE,
                                        afterStop |-> FALSE] >>,
                            released |-> FALSE]
                      ELSE [wrappers[w] EXCEPT !.released = FALSE]]

PidFileLive == pidFile # 0 /\ InTable(pidFile)

\* No dev process is in the process table and nothing is in progress: no
\* startProcess invocation, no undelivered 'exit' or 'close' event, no stop
\* script.
NoDevAndIdle ==
  /\ \A p \in Pids : ~InTable(p)
  /\ \A w \in WrapperIds : wrappers[w].inv = <<>>
  /\ exitQ = {}
  /\ closeQ = {}
  /\ stop.pc = "idle"

\* A start-sst-dev request.
StartSSTDev(throwAt) ==
  /\ throwAt \in {"none", "fs", "spawn", "async"}
  /\ startSSTDev(throwAt)
  /\ UNCHANGED <<notSup, lim, workspaceB, envFile, logText, pidFile, serverFile, procs, exitQ, closeQ, stop, quietStops>>
  /\ last' = [op |-> "start", res |-> StartAnswer(throwAt),
              pidLive |-> PidFileLive,
              idle |-> NoDevAndIdle,
              spawnFailed |-> (~AlreadyRunning /\ throwAt \in {"spawn", "async"}),
              spawned |-> (wrappers' # wrappers),
              logSame |-> (logFile' = logFile),
              pidSame |-> (pidFile' = pidFile)]

\* The 'error' handler of a wrapper that could not be spawned (675-680): the
\* error is written to the log; Node emits 'close' after it.
ServerOnError(w) ==
  /\ wrappers[w].st = "spawnfail"
  /\ wrappers' = [wrappers EXCEPT ![w].st = "exited"]
  /\ closeQ' = closeQ \cup {w}
  /\ logFile' = IF logStream > 0 THEN Append(logFile, <<"DevError">>) ELSE logFile
  /\ last' = NoReply
  /\ UNCHANGED <<notSup, lim, workspaceB, envFile, logText, sstProcess, logStream, pidFile, serverFile, procs, exitQ, stop,
                 quietStops>>

\* The 'close' handler of a wrapper (666-673): it writes the end marker to
\* the server's current log stream and clears the current handle, whichever
\* wrapper they were set for.
ServerOnClose(w) ==
  /\ w \in closeQ
  /\ closeQ' = closeQ \ {w}
  /\ logFile' = IF logStream > 0 THEN Append(logFile, <<"DevEnded", 1>>) ELSE logFile
  /\ logStream' = 0
  /\ sstProcess' = 0
  /\ last' = NoReply
  /\ UNCHANGED <<notSup, lim, workspaceB, envFile, logText, pidFile, serverFile, wrappers, procs, exitQ, stop, quietStops>>

\* ------------------------------------------------------ wrapper: start.ts

\* killProcessAndChildren(pid, 'SIGKILL'), the psTree callback (289-305): the
\* pid and the children psTree finds (none once the parent has left the
\* process table) are sent the signal.
killProcessAndChildren(pid) ==
  [procs EXCEPT ![pid] =
     [@ EXCEPT !.st = IF @ = "live" THEN "dying" ELSE @,
               !.desc = IF InTable(pid) /\ @ = "live" THEN "dead" ELSE @]]

\* startProcess up to its first await (213-222), called by the watcher.
StartProcessBegin(w) ==
  IF wrappers[w].child # 0
  THEN [pc |-> "kill", pid |-> wrappers[w].child, initial |-> FALSE,
        afterStop |-> wrappers[w].released]
  ELSE [pc |-> "mkdir", pid |-> 0, initial |-> FALSE,
        afterStop |-> wrappers[w].released]

Watching == {w \in WrapperIds : wrappers[w].st = "run" /\ wrappers[w].watching}

\* env.sh changes: the watcher of every wrapper calls startProcess (340-343).
EnvChange ==
  /\ Watching # {}
  /\ \A w \in Watching : Len(wrappers[w].inv) < lim.inflight
  /\ wrappers' = [w \in WrapperIds |->
                    IF w \in Watching
                    THEN [wrappers[w] EXCEPT !.inv = Append(@, StartProcessBegin(w))]
                    ELSE wrappers[w]]
  /\ last' = NoReply
  /\ UNCHANGED <<notSup, lim, workspaceB, envFile, logText, sstProcess, logStream, logFile, pidFile, serverFile, procs, exitQ,
                 closeQ, stop, quietStops>>

\* The kill of the old child completes (216-219): childProcess = null, then
\* the invocation is suspended at `await fsPromises.mkdir`.
WrapperKill(w, i) ==
  /\ wrappers[w].st = "run"
  /\ i \in 1..Len(wrappers[w].inv)
  /\ wrappers[w].inv[i].pc = "kill"
  /\ procs' = killProcessAndChildren(wrappers[w].inv[i].pid)
  /\ wrappers' = [wrappers EXCEPT ![w].child = 0, ![w].inv[i].pc = "mkdir"]
  /\ last' = NoReply
  /\ UNCHANGED <<notSup, lim, workspaceB, envFile, logText, sstProcess, logStream, logFile, pidFile, serverFile, exitQ, closeQ,
                 stop, quietStops>>

\* startProcess after the mkdir (223-287) found a `*.server` file: 235-236,
\* process.exit(1).  The wrapper's children are left running; its pending
\* events die with it; the server will see 'close'.
WrapperExit(w, i) ==
  /\ wrappers[w].st = "run"
  /\ i \in 1..Len(wrappers[w].inv)
  /\ wrappers[w].inv[i].pc = "mkdir"
  /\ serverFile
  /\ wrappers' = [wrappers EXCEPT ![w] = [st |-> "exited", child |-> 0,
                                          watching |-> FALSE, inv |-> <<>>,
                                          released |-> FALSE]]
  /\ exitQ' = {p \in exitQ : procs[p].owner # w}
  /\ closeQ' = closeQ \cup {w}
  /\ last' = NoReply
  /\ UNCHANGED <<notSup, lim, workspaceB, envFile, logText, sstProcess, logStream, logFile, pidFile, serverFile, procs, stop, quietStops>>

\* startProcess after the mkdir, no `*.server` file: spawn `npx sst dev`
\* (240-247), record its PID (250-257), register the handlers; when this was
\* main's call, main goes on to set up the watcher (335-343).
WrapperSpawn(w, i) ==
  /\ wrappers[w].st = "run"
  /\ i \in 1..Len(wrappers[w].inv)
  /\ wrappers[w].inv[i].pc = "mkdir"
  /\ ~serverFile
  /\ NextPid <= lim.spawns
  /\ procs' = [procs EXCEPT ![NextPid] = [st |-> "live", desc |-> "live", owner |-> w]]
  /\ pidFile' = NextPid
  /\ wrappers' = [wrappers EXCEPT ![w] =
                    [@ EXCEPT !.child = NextPid,
                              !.watching = @ \/ wrappers[w].inv[i].initial,
                              !.inv = RemoveAt(@, i)]]
  /\ stop' = [stop EXCEPT !.quiet = FALSE]
  /\ quietStops' = 0
  /\ last' = NoReply
  /\ UNCHANGED <<notSup, lim, workspaceB, envFile, logText, sstProcess, logStream, logFile, serverFile, exitQ, closeQ>>

\* The 'exit' handler of a child (273-286): it unlinks the PID file if there
\* is one and clears childProcess, whatever they hold by now.
WrapperOnExit(p) ==
  /\ p \in exitQ
  /\ exitQ' = exitQ \ {p}
  /\ pidFile' = 0
  /\ wrappers' = [wrappers EXCEPT ![procs[p].owner].child = 0]
  /\ last' = NoReply
  /\ UNCHANGED <<notSup, lim, workspaceB, envFile, logText, sstProcess, logStream, logFile, serverFile, procs, closeQ, stop, quietStops>>

\* ------------------------------------------------- the dev process itself

ExitEvent(p) == IF wrappers[procs[p].owner].st = "run" THEN {p} ELSE {}

\* A dev process exits (on a signal it received or of its own accord).  On a
\* clean shutdown sst removes its `*.server` file.
DevExit(p, clean) ==
  /\ p \in Pids
  /\ procs[p].st = "live"
  /\ clean => serverFile
  /\ procs' = [procs EXCEPT ![p].st = "dead"]
  /\ serverFile' = IF clean THEN FALSE ELSE serverFile
  /\ exitQ' = exitQ \cup ExitEvent(p)
  /\ last' = NoReply
  /\ UNCHANGED <<notSup, lim, workspaceB, envFile, logText, sstProcess, logStream, logFile, pidFile, wrappers, closeQ, stop, quietStops>>

\* A SIGKILLed dev process leaves the process table.
DevReap(p) ==
  /\ p \in Pids
  /\ procs[p].st = "dying"
  /\ procs' = [procs EXCEPT ![p].st = "dead"]
  /\ exitQ' = exitQ \cup ExitEvent(p)
  /\ last' = NoReply
  /\ UNCHANGED <<notSup, lim, workspaceB, envFile, logText, sstProcess, logStream, logFile, pidFile, serverFile, wrappers,
                 closeQ, stop, quietStops>>

\* A descendant of a dev process exits, once its parent no longer runs.
DescExit(p) ==
  /\ p \in Pids
  /\ procs[p].st \in {"dying", "dead"}
  /\ procs[p].desc = "live"
  /\ procs' = [procs EXCEPT ![p].desc = "dead"]
  /\ last' = NoReply
  /\ UNCHANGED <<notSup, lim, workspaceB, envFile, logText, sstProcess, logStream, logFile, pidFile, serverFile, wrappers,
                 exitQ, closeQ, stop, quietStops>>

\* A running sst dev writes its `*.server` file.
SstWritesServerFile ==
  /\ LiveDevs # {}
  /\ ~serverFile
  /\ serverFile' = TRUE
  /\ last' = NoReply
  /\ UNCHANGED <<notSup, lim, workspaceB, envFile, logText, sstProcess, logStream, logFile, pidFile, wrappers, procs, exitQ,
                 closeQ, stop, quietStops>>


\* ------------------------------------------------- the stop script: stop.ts

\* The lines stop.ts prints (console.log to stdout, console.error and
\* console.warn to stderr).
OutNoPidFile == "SST development process is not running (no PID file found)"
OutStopping == "Stopping SST process with PID"
OutForcing == "Process did not terminate gracefully, forcing kill..."
OutAlreadyStopped == "SST process was already stopped (process not found)"
OutStopped == "SST development process stopped successfully"
OutCleaned == "PID file cleaned up"
ErrStillRunning == "Process is still running after kill attempts"
ErrUnlink == "Failed to remove PID file"

\* stopSSTDev (700-733): the server spawns `npx tsx stop.ts`.  spawnFails: the
\* spawn itself fails and the child emits 'error' instead of running.
stopSSTDev(by, spawnFails) ==
  /\ stop.pc = "idle"
  /\ stop' = [StopIdle EXCEPT !.pc = IF spawnFails THEN "spawnerr" ELSE "spawned",
                              !.by = by,
                              !.quiet = (\A p \in Pids : ~InTable(p))]

\* Lines 77-97 of stopSST, reached with the PID read from the file: the script
\* ends with code 1 when the process is still there, and otherwise unlinks the
\* PID file and ends with code 0.
StopVerify(s) ==
  IF InTable(s.pid)
  THEN [s EXCEPT !.pc = "exited", !.code = 1, !.err = Append(@, ErrStillRunning)]
  ELSE [s EXCEPT !.pc = "exited", !.code = 0,
                 !.out = @ \o <<OutStopped>> \o (IF pidFile # 0 THEN <<OutCleaned>> ELSE <<>>),
                 !.err = @ \o (IF pidFile # 0 THEN <<>> ELSE <<ErrUnlink>>)]

\* A stop script that never unlinks the PID file.
StopVerifyKeepsFile(pid) == FALSE

\* A stop script that unlinks the PID file without the verification.
StopVerifyUnlinksUnverified(pid) == TRUE

\* 83-88: the PID file is unlinked once kill(pid, 0) has thrown ESRCH.
StopVerifyUnlinks(pid) == ~InTable(pid)

\* A stop script that sends SIGKILL without the second kill(pid, 0).
StopRecheckKillsUnchecked(pid) == TRUE

\* 57-60: SIGKILL is sent once the second kill(pid, 0) has not thrown.
StopRecheckKills(pid) == InTable(pid)

\* stopSST from its start to its first await or its end (25-54).
StopScriptBegin ==
  /\ stop.pc = "spawned"
  /\ IF pidFile = 0 THEN
       \* 28-31
       /\ stop' = [stop EXCEPT !.pc = "exited", !.code = 0, !.out = <<OutNoPidFile>>]
       /\ UNCHANGED pidFile
     ELSE IF ~InTable(pidFile) THEN
       \* 48 throws ESRCH, 69-70, then 77-97
       /\ stop' = StopVerify([stop EXCEPT !.pid = pidFile,
                                           !.out = <<OutStopping, OutAlreadyStopped>>])
       /\ pidFile' = IF StopVerifyUnlinks(pidFile) THEN 0 ELSE pidFile
     ELSE
       \* 51: SIGTERM to the recorded process, and to it alone; then the 2 s wait
       /\ stop' = [stop EXCEPT !.pc = "wait1", !.pid = pidFile,
                               !.out = <<OutStopping>>,
                               !.sigs = <<[sig |-> "SIGTERM", to |-> "pid"]>>]
       /\ UNCHANGED pidFile
  /\ last' = NoReply
  /\ UNCHANGED <<notSup, lim, workspaceB, envFile, logText, sstProcess, logStream, logFile, serverFile, wrappers, procs,
                 exitQ, closeQ, quietStops>>

\* After the 2 s wait (56-66): still there, so SIGKILL and wait 1 s; or gone,
\* and the script runs on through 77-97.
StopScriptRecheck ==
  /\ stop.pc = "wait1"
  /\ IF StopRecheckKills(stop.pid) THEN
       /\ stop' = [stop EXCEPT !.pc = "wait2", !.out = Append(@, OutForcing),
                               !.sigs = Append(@, [sig |-> "SIGKILL", to |-> "pid"])]
       /\ procs' = [procs EXCEPT ![stop.pid].st = "dying"]
       /\ UNCHANGED pidFile
     ELSE
       /\ stop' = StopVerify(stop)
       /\ pidFile' = IF StopVerifyUnlinks(stop.pid) THEN 0 ELSE pidFile
       /\ UNCHANGED procs
  /\ last' = NoReply
  /\ UNCHANGED <<notSup, lim, workspaceB, envFile, logText, sstProcess, logStream, logFile, serverFile, wrappers,
                 exitQ, closeQ, quietStops>>

\* After the 1 s wait: 77-97.
StopScriptVerify ==
  /\ stop.pc = "wait2"
  /\ stop' = StopVerify(stop)
  /\ pidFile' = IF StopVerifyUnlinks(stop.pid) THEN 0 ELSE pidFile
  /\ last' = NoReply
  /\ UNCHANGED <<notSup, lim, workspaceB, envFile, logText, sstProcess, logStream, logFile, serverFile, wrappers, procs,
                 exitQ, closeQ, quietStops>>

\* What stopSSTDev's promise settles with (742-757): the trimmed stdout, or an
\* error carrying the exit code and stderr.
StopResult ==
  IF stop.pc = "spawnerr" THEN
    [ok |-> FALSE, msg |-> <<"Failed to run stop script: ", "spawn npx ENOENT">>]
  ELSE IF stop.code = 0 THEN
    [ok |-> TRUE,
     msg |-> IF stop.out = <<>> THEN <<"SST development process has been stopped.">>
             ELSE stop.out]
  ELSE
    [ok |-> FALSE, msg |-> <<"Stop script failed with code 1: ">> \o stop.err]

\* The 'close' handler of the stop script (734-754), also run after 'error'
\* (756-758) when the spawn failed: it clears the handle and ends the log
\* stream whatever the script's exit code.
stopOnClose ==
  /\ stop.pc \in {"exited", "spawnerr"}
  /\ sstProcess' = 0
  /\ logStream' = 0
  /\ stop' = StopIdle
  /\ wrappers' = [w \in WrapperIds |->
                    IF StopResult.ok /\ wrappers[w].st = "run"
                    THEN [wrappers[w] EXCEPT !.released = TRUE]
                    ELSE wrappers[w]]
  /\ quietStops' = IF stop.quiet /\ stop.pc = "exited" THEN (IF quietStops = 0 THEN 1 ELSE 2) ELSE 0

\* A stop-sst-dev request, and its completion.
StopSSTDev(spawnFails) ==
  /\ wf.pc = "idle"
  /\ stopSSTDev("req", spawnFails)
  /\ last' = NoReply
  /\ UNCHANGED <<notSup, lim, workspaceB, envFile, logText, sstProcess, logStream, logFile, pidFile, serverFile, wrappers,
                 procs, exitQ, closeQ, quietStops>>

StopSSTDevDone ==
  /\ stop.by = "req"
  /\ stopOnClose
  /\ last' = [op |-> "stop", res |-> StopResult, ran |-> (stop.pc = "exited"),
              quiet |-> stop.quiet, pid |-> stop.pid, sigs |-> stop.sigs,
              pidFileAfter |-> pidFile,
              stillThere |-> (\E i \in 1..Len(stop.err) : stop.err[i] = ErrStillRunning),
              pidAlive |-> InTable(stop.pid),
              descAlive |-> (stop.pid # 0 /\ procs[stop.pid].desc = "live")]
  /\ UNCHANGED <<notSup, lim, workspaceB, envFile, logText, logFile, pidFile, serverFile, procs, exitQ, closeQ>>

\* ------------------------------------------------- server: get-sst-status

\* A status check that leaves a stale PID file where it is.
StatusNeverUnlinks == FALSE

\* A status check that unlinks whatever PID file it finds.
StatusAlwaysUnlinks == pidFile # 0

\* 966-997: process.kill(pid, 0) throws ESRCH and the PID file is unlinked.
StatusUnlinks == pidFile # 0 /\ ~InTable(pidFile)

\* getSSTStatus (947-1004).
GetSSTStatus ==
  /\ last' = [op |-> "status",
              running |-> PidFileLive,
              pid |-> IF PidFileLive THEN pidFile ELSE 0,
              stale |-> (pidFile # 0 /\ ~InTable(pidFile))]
  /\ pidFile' = IF StatusUnlinks THEN 0 ELSE pidFile
  /\ UNCHANGED <<notSup, lim, workspaceB, envFile, logText, sstProcess, logStream, logFile, serverFile, wrappers, procs,
                 exitQ, closeQ, stop, quietStops>>

\* ------------------------------------------- server: a second workspace

\* The server keeps one sstProcess and one logStream (20-21) for every
\* workspaceRoot it is called with.  The actions below are the handlers
\* called with the second workspace root; its PID file, log file and dev
\* processes are its own and are not modelled.

\* startSSTDev (611-698) for the second workspace: the same duplicate test
\* on the one handle, then the wrapper is spawned in the second workspace.
StartSSTDevB(throwAt) ==
  /\ throwAt \in {"none", "fs", "spawn"}
  /\ IF AlreadyRunning THEN
       UNCHANGED <<sstProcess, logStream, workspaceB>>
     ELSE IF throwAt # "none" THEN
       /\ logStream' = 0
       /\ sstProcess' = 0
       /\ UNCHANGED workspaceB
     ELSE
       /\ logStream' = HandleB
       /\ sstProcess' = HandleB
       /\ workspaceB' = [workspaceB EXCEPT !.wrapper = "run"]
  /\ last' = [op |-> "startB", res |-> StartAnswer(throwAt), threw |-> (throwAt # "none"),
              handleBefore |-> sstProcess,
              devLiveA |-> (LiveDevs # {}),
              spawned |-> (workspaceB' # workspaceB)]
  /\ UNCHANGED <<notSup, lim, envFile, logText, logFile, pidFile, serverFile, wrappers, procs, exitQ, closeQ,
                 stop, quietStops>>

\* The second workspace's wrapper exits and its 'close' handler (666-673)
\* runs: the end marker goes to the current log stream, and the current
\* stream and handle are cleared.
ServerOnCloseB ==
  /\ workspaceB.wrapper = "run"
  /\ workspaceB' = [workspaceB EXCEPT !.wrapper = "none"]
  /\ logFile' = IF logStream > 0 THEN Append(logFile, <<"DevEnded", 1>>) ELSE logFile
  /\ logStream' = 0
  /\ sstProcess' = 0
  /\ last' = NoReply
  /\ UNCHANGED <<notSup, lim, envFile, logText, pidFile, serverFile, wrappers, procs, exitQ, closeQ, stop,
                 quietStops>>

\* stopSSTDev (700-762) for the second workspace: the stop script is spawned
\* on the second workspace root (709-713).
StopSSTDevB ==
  /\ ~workspaceB.stopping
  /\ workspaceB' = [workspaceB EXCEPT !.stopping = TRUE]
  /\ last' = NoReply
  /\ UNCHANGED <<notSup, lim, envFile, logText, sstProcess, logStream, logFile, pidFile, serverFile, wrappers,
                 procs, exitQ, closeQ, stop, quietStops>>

\* The 'close' handler of that stop script (734-755): the handle and the log
\* stream are cleared, whichever workspace they were set for and whatever the
\* exit code.
StopSSTDevBDone(code) ==
  /\ workspaceB.stopping
  /\ code \in {0, 1}
  /\ workspaceB' = [workspaceB EXCEPT !.stopping = FALSE]
  /\ sstProcess' = 0
  /\ logStream' = 0
  /\ last' = [op |-> "stopB", ok |-> (code = 0),
              handleBefore |-> sstProcess, streamBefore |-> logStream]
  /\ UNCHANGED <<notSup, lim, envFile, logText, logFile, pidFile, serverFile, wrappers, procs, exitQ, closeQ,
                 stop, quietStops>>

\* --------------------------------------------------------- timed commands

\* Limits of the timed commands, in ms.
DeployTimeoutMs == 300000
DefaultTimeoutMs == 120000
ShellExecTimeoutMs == 60000

\* Bounds of specification SpecTimed.
MaxCalls == 2      \* timed command calls
TickMs == 60000    \* the clock advances by 1 ms or by TickMs
SubTicks == 2      \* 1 ms steps modelled within one TickMs

Stages == {"dev", "prod"}
RunOps == {"version", "shell exec"}

NoCall == [st |-> "none"]

CallIds == DOMAIN calls
Started == {c \in CallIds : calls[c].st # "none"}
NextCall == Cardinality(Started) + 1

Put(f, k, v) == [x \in DOMAIN f \cup {k} |-> IF x = k THEN v ELSE f[x]]
Del(f, k) == [x \in DOMAIN f \ {k} |-> f[x]]

\* The timeoutMs runSSTCommand is called with: 60000 by sstShellExec (1404),
\* the default 120000 (1426) by the others.
RunTimeoutMs(op) == IF op = "shell exec" THEN ShellExecTimeoutMs ELSE DefaultTimeoutMs

\* The key a cancel handler is registered under: sstDeploy 787, runSSTCommand 1435.
DeployKey(stage) == <<"deploy", stage>>
RunKey(op, t) == <<op, t>>

\* A call as its handler leaves it at its await.  closed is the exit code
\* once the command has closed; args are the arguments of the command when a
\* claim reads them; stderr and stdout are all the command writes to either
\* stream, as lists of words (the one word "stderr" or "stdout" stands for a
\* text that quotes no argument); logged are the entries the call has written
\* with this.logger, each with the words it carries.  stream is the state of
\* the write stream an sst-deploy opens on the log (775), "none" for a call
\* that opens none, and writeAfterEnd tells that the call has written to its
\* stream after ending it.
NewCall(kind, op, key, ms, spawnFails) ==
  [st |-> "running", kind |-> kind, op |-> op, key |-> key, ms |-> ms, start |-> now,
   proc |-> IF spawnFails THEN "failed" ELSE "live",
   timer |-> "pending", outcome |-> "none", error |-> <<>>,
   termSent |-> FALSE, procAtTimeout |-> "none", termAtTimeout |-> FALSE,
   closed |-> <<>>, args |-> <<>>, stderr |-> <<"stderr">>, stdout |-> <<"stdout">>,
   logged |-> <<>>, stream |-> IF kind = "deploy" THEN "open" ELSE "none",
   writeAfterEnd |-> FALSE]

\* withTimeout up to its await (96-105): the timer is created and stored under
\* the operation name, replacing whatever timer was stored there.
withTimeout(c, op) == operationTimeouts' = Put(operationTimeouts, op, c)

\* sstDeploy up to its await (765-857): start marker, spawn, cancel handler
\* registered under deploy-<workspaceRoot>-<stage>, then withTimeout.
sstDeploy(c, stage, spawnFails) ==
  /\ c = NextCall
  /\ c <= lim.calls
  /\ logFile' = Append(logFile, <<"DeployStarted", stage>>)
  /\ calls' = [calls EXCEPT ![c] =
                 NewCall("deploy", "SST deployment", DeployKey(stage), DeployTimeoutMs,
                         spawnFails)]
  /\ cancelHandlers' = Put(cancelHandlers, DeployKey(stage), c)
  /\ withTimeout(c, "SST deployment")

\* runSSTCommand up to its await (1422-1485): spawn, cancel handler registered
\* under <operation>-<Date.now()>, then withTimeout.
runSSTCommand(c, op, spawnFails) ==
  /\ c = NextCall
  /\ c <= lim.calls
  /\ calls' = [calls EXCEPT ![c] =
                 NewCall("run", op, RunKey(op, now), RunTimeoutMs(op), spawnFails)]
  /\ cancelHandlers' = Put(cancelHandlers, RunKey(op, now), c)
  /\ withTimeout(c, op)
  /\ UNCHANGED logFile

\* The secret values and what the `sst secret set` command may do with the
\* value it is given as an argument: quote it on stderr (echoes) or not.
SecretName == "NAME"
SecretValues == {"value-1", "value-2"}

\* sstSecretSet up to its await (1356-1364): the name is logged, the value is
\* the fourth argument of the command, and runSSTCommand does the rest.
sstSecretSet(c, value, echoes, spawnFails) ==
  /\ c = NextCall
  /\ c <= lim.calls
  /\ value \in SecretValues
  /\ calls' = [calls EXCEPT ![c] =
                 [NewCall("run", "secret set", RunKey("secret set", now), DefaultTimeoutMs,
                          spawnFails)
                    EXCEPT !.args = <<"secret", "set", SecretName, value>>,
                           !.stderr = IF echoes THEN <<"stderr", value>> ELSE <<"stderr">>,
                           !.logged = <<[msg |-> "Setting SST secret", code |-> 0,
                                         words |-> <<SecretName>>]>>]]
  /\ cancelHandlers' = Put(cancelHandlers, RunKey("secret set", now), c)
  /\ withTimeout(c, "secret set")
  /\ UNCHANGED logFile

\* The continuation of withTimeout once the race is settled, on either path
\* (106-110, 113-117): the timer stored under the operation name, whichever
\* call created it, is cleared and the entry deleted.
ClearedTimers(op) == IF op \in DOMAIN operationTimeouts THEN {operationTimeouts[op]} ELSE {}

Settle(cs, c, outcome, error) ==
  [d \in DOMAIN cs |->
     LET withOutcome == IF d = c
                        THEN [cs[d] EXCEPT !.st = "settled", !.outcome = outcome,
                                           !.error = error]
                        ELSE cs[d]
     IN IF d \in ClearedTimers(cs[c].op) /\ withOutcome.timer = "pending"
        THEN [withOutcome EXCEPT !.timer = "cleared"]
        ELSE withOutcome]

\* The lookup key of the onCancel callback: sstDeploy 853-856 uses the key of
\* the registration, runSSTCommand 1481-1484 builds it from Date.now() anew.
CancelLookupKey(c) ==
  IF calls[c].kind = "deploy" THEN calls[c].key ELSE RunKey(calls[c].op, now)

\* The call whose process the onCancel callback of call c signals, if any.
CancelTargets(c) ==
  IF CancelLookupKey(c) \in DOMAIN cancelHandlers
  THEN {cancelHandlers[CancelLookupKey(c)]}
  ELSE {}

\* The timer of call c fires (97-100): onCancel, then reject with
\* `<operation> timed out after <timeoutMs>ms`; when the call was still
\* pending it settles with that error and withTimeout's catch runs.
TimerFire(c) ==
  /\ c \in Started
  /\ calls[c].timer = "pending"
  /\ now >= calls[c].start + calls[c].ms
  /\ LET signalled == [d \in DOMAIN calls |->
                         LET r == IF d = c
                                  THEN [calls[d] EXCEPT !.timer = "fired",
                                          !.procAtTimeout = calls[c].proc,
                                          !.termAtTimeout = (c \in CancelTargets(c))]
                                  ELSE calls[d]
                         IN IF d \in CancelTargets(c) /\ r.proc = "live"
                            THEN [r EXCEPT !.termSent = TRUE]
                            ELSE r]
     IN IF calls[c].st = "running"
        THEN /\ calls' = Settle(signalled, c, "timeout",
                                [kind |-> "timeout", operation |-> calls[c].op,
                                 ms |-> calls[c].ms])
             /\ operationTimeouts' = Del(operationTimeouts, calls[c].op)
        ELSE /\ calls' = signalled
             /\ UNCHANGED operationTimeouts
  /\ last' = NoReply
  /\ UNCHANGED <<cancelHandlers, now, wf, lim, workspaceB, envFile, logText, sstProcess, logStream, logFile, pidFile,
                 serverFile, wrappers, procs, exitQ, closeQ, stop, quietStops>>

\* The 'error' handler of a call whose spawn failed (838-844, 1470-1474): the
\* handler is deleted, the deploy's log stream ended, the promise rejected.
StreamEnded(c) == IF calls[c].stream = "none" THEN "none" ELSE "ended"

CallError(c) ==
  /\ c \in Started
  /\ calls[c].proc = "failed"
  /\ cancelHandlers' = Del(cancelHandlers, calls[c].key)
  /\ IF calls[c].st = "running"
     THEN /\ calls' = [Settle(calls, c, "spawnfail", [kind |-> "spawn", operation |-> calls[c].op])
                         EXCEPT ![c].proc = "errored", ![c].stream = StreamEnded(c)]
          /\ operationTimeouts' = Del(operationTimeouts, calls[c].op)
     ELSE /\ calls' = [calls EXCEPT ![c].proc = "errored", ![c].stream = StreamEnded(c)]
          /\ UNCHANGED operationTimeouts
  /\ last' = NoReply
  /\ UNCHANGED <<now, wf, lim, workspaceB, envFile, logText, sstProcess, logStream, logFile, pidFile,
                 serverFile, wrappers, procs, exitQ, closeQ, stop, quietStops>>

\* A rejection that carries the exit code alone.
FailedMessageWithoutOutput(c, code) ==
  [kind |-> "failed", operation |-> calls[c].op, code |-> code,
   stderr |-> <<>>, stdout |-> <<>>]

\* The Error of a nonzero exit (834, 1466): `<operation> failed with code
\* <code>:\n<errorOutput>\n<output>`.  'close' comes after both streams have
\* ended, so errorOutput and output hold all the child wrote to stderr and
\* to stdout.
FailedMessage(c, code) ==
  [kind |-> "failed", operation |-> calls[c].op, code |-> code,
   stderr |-> calls[c].stderr, stdout |-> calls[c].stdout]

\* this.logger.error of a nonzero exit (833, 1465): the deploy's entry
\* carries errorOutput among its fields, and so does runSSTCommand's.
FailedLogEntry(c, code) ==
  [msg |-> "failed", code |-> code, words |-> calls[c].stderr]

\* The entries a call has logged once its command has closed with the code.
LoggedAtClose(c, code) ==
  IF code = 0 THEN calls[c].logged ELSE Append(calls[c].logged, FailedLogEntry(c, code))

\* The 'close' handler of a call (814-836, 1456-1468), with the exit code (0,
\* 1, or -1 for the close that follows a failed spawn or a kill by signal): the
\* handler is deleted, the deploy's end marker written and its stream ended,
\* and the promise resolved on code 0 and rejected otherwise; closed records
\* the code.  A write to a stream that has been ended reaches no file: the
\* stream emits 'error' (write after end) instead.
WritesAfterEnd(c) == calls[c].stream = "ended"

CallClose(c, code) ==
  /\ c \in Started
  /\ calls[c].proc \in {"live", "errored"}
  /\ code \in {0, 1, -1}
  /\ (calls[c].proc = "errored") => (code = -1)
  /\ (code = -1 /\ calls[c].proc = "live") => calls[c].termSent
  /\ cancelHandlers' = Del(cancelHandlers, calls[c].key)
  /\ logFile' = IF calls[c].stream = "open"
                THEN Append(logFile, <<"DeployEnded", code>>) ELSE logFile
  /\ IF calls[c].st = "running"
     THEN /\ calls' = [Settle(calls, c, IF code = 0 THEN "ok" ELSE "failed",
                              IF code = 0 THEN <<>>
                              ELSE FailedMessage(c, code))
                         EXCEPT ![c].proc = "closed", ![c].closed = <<code>>,
                                ![c].logged = LoggedAtClose(c, code),
                                ![c].stream = StreamEnded(c),
                                ![c].writeAfterEnd = WritesAfterEnd(c)]
          /\ operationTimeouts' = Del(operationTimeouts, calls[c].op)
     ELSE /\ calls' = [calls EXCEPT ![c].proc = "closed", ![c].closed = <<code>>,
                                    ![c].logged = LoggedAtClose(c, code),
                                    ![c].stream = StreamEnded(c),
                                    ![c].writeAfterEnd = WritesAfterEnd(c)]
          /\ UNCHANGED operationTimeouts
  /\ last' = NoReply
  /\ UNCHANGED <<now, wf, lim, workspaceB, envFile, logText, sstProcess, logStream, pidFile,
                 serverFile, wrappers, procs, exitQ, closeQ, stop, quietStops>>

\* Time passes, as long as some timer is still to come due.
Tick(d) ==
  /\ d \in {1, TickMs}
  /\ \E c \in Started : calls[c].timer = "pending" /\ now < calls[c].start + calls[c].ms
  /\ (d = 1) => ((now % TickMs) + 1 < SubTicks)
  /\ now' = now + d
  /\ last' = NoReply
  /\ UNCHANGED <<operationTimeouts, cancelHandlers, calls, wf, supVarsButLast>>

\* Time passes until the earliest pending timer comes due.
Due(c) == calls[c].start + calls[c].ms
TickToDeadline ==
  /\ \E c \in Started :
       /\ calls[c].timer = "pending"
       /\ now < Due(c)
       /\ \A d \in Started : (calls[d].timer = "pending" /\ now < Due(d)) => Due(c) <= Due(d)
       /\ now' = Due(c)
  /\ last' = NoReply
  /\ UNCHANGED <<operationTimeouts, cancelHandlers, calls, wf, supVarsButLast>>

\* An sst-deploy request, and a request served by runSSTCommand.
SstDeploy(stage, spawnFails) ==
  /\ sstDeploy(NextCall, stage, spawnFails)
  /\ last' = NoReply
  /\ UNCHANGED <<now, wf, lim, workspaceB, envFile, logText, sstProcess, logStream, pidFile,
                 serverFile, wrappers, procs, exitQ, closeQ, stop, quietStops>>

RunSSTCommand(op, spawnFails) ==
  /\ runSSTCommand(NextCall, op, spawnFails)
  /\ last' = NoReply
  /\ UNCHANGED <<now, wf, lim, workspaceB, envFile, logText, sstProcess, logStream, pidFile,
                 serverFile, wrappers, procs, exitQ, closeQ, stop, quietStops>>

\* list-sst-stages (1123-1146): the command is run with execSync, which
\* returns only when the child has exited; until then the event loop of the
\* server runs no handler, timer or callback.  The call has no timer and no
\* cancel handler; proc "sync" is the child execSync waits for.
ListSSTStages ==
  /\ NextCall <= lim.calls
  /\ calls' = [calls EXCEPT ![NextCall] =
                 [NewCall("execSync", "list stages", <<"list stages">>, 0, FALSE)
                    EXCEPT !.proc = "sync", !.timer = "none"]]
  /\ last' = NoReply
  /\ UNCHANGED <<operationTimeouts, cancelHandlers, now, wf, supVarsButLast>>

\* The child of execSync exits: with code 0 the stages are listed, otherwise
\* execSync throws and the catch of 1143-1145 answers with a text as well
\* (outcome "swallowed").
ExecSyncReturns(c, code) ==
  /\ c \in Started
  /\ calls[c].proc = "sync"
  /\ code \in {0, 1}
  /\ calls' = [calls EXCEPT ![c].st = "settled", ![c].proc = "closed",
                             ![c].outcome = IF code = 0 THEN "ok" ELSE "swallowed"]
  /\ last' = NoReply
  /\ UNCHANGED <<operationTimeouts, cancelHandlers, now, wf, supVarsButLast>>

\* The event loop is inside a synchronous call that waits for a child.
EventLoopBlocked == \E c \in Started : calls[c].proc = "sync"

\* A step of the event loop: a handler, a timer or an event callback runs
\* only when the loop is not inside a synchronous call.
OnLoop(A) == ~EventLoopBlocked /\ A

\* An sst-secret-set request.
SstSecretSet(value, echoes, spawnFails) ==
  /\ sstSecretSet(NextCall, value, echoes, spawnFails)
  /\ last' = NoReply
  /\ UNCHANGED <<now, wf, lim, workspaceB, envFile, logText, sstProcess, logStream, pidFile,
                 serverFile, wrappers, procs, exitQ, closeQ, stop, quietStops>>

\* ------------------------------------------------------------- env.sh

\* The text of env.sh is a sequence of tokens: the newline, the space, the
\* characters = " ' # and words.  A word stands for a run of word characters
\* that the regular expressions of the code read as a whole: upper-case
\* names, lower-case names, digits, the word export, other text.
NL == "\n"
Space == " "
UpperWords == {"FOO", "BAR", "OLD"}
LowerWords == {"foo", "a", "b", "two", "words", "export"}
DigitWords == {"0", "1"}
WordTokens == UpperWords \cup LowerWords \cup DigitWords

\* String.split('\n') and Array.join('\n').
RECURSIVE SplitLines(_)
SplitLines(text) ==
  IF \A i \in 1..Len(text) : text[i] # NL THEN <<text>>
  ELSE LET i == CHOOSE i \in 1..Len(text) :
                  text[i] = NL /\ \A j \in 1..(i - 1) : text[j] # NL
       IN <<SubSeq(text, 1, i - 1)>> \o SplitLines(SubSeq(text, i + 1, Len(text)))

RECURSIVE JoinLines(_)
JoinLines(lines) ==
  IF lines = <<>> THEN <<>>
  ELSE IF Len(lines) = 1 THEN lines[1]
  ELSE lines[1] \o <<NL>> \o JoinLines(Tail(lines))

\* The end of the longest run of tokens of a class that starts at p (p - 1
\* when there is none).
RunEnd(line, p, class) ==
  CHOOSE j \in (p - 1)..Len(line) :
    /\ \A i \in p..j : line[i] \in class
    /\ j = Len(line) \/ line[j + 1] \notin class

\* String.trim().
Trim(line) ==
  LET kept == {i \in 1..Len(line) : line[i] # Space}
  IN IF kept = {} THEN <<>>
     ELSE SubSeq(line, CHOOSE i \in kept : \A j \in kept : i <= j,
                       CHOOSE i \in kept : \A j \in kept : j <= i)

\* The position after `export\s+` at the start of a line, or 0.
AfterExport(line) ==
  IF Len(line) >= 2 /\ line[1] = "export" /\ line[2] = Space
  THEN RunEnd(line, 2, {Space}) + 1
  ELSE 0

NoKey == <<>>

\* setSSTEnv's test of a line (1220): /^export\s+([A-Z_][A-Z0-9_]*)=/ on the
\* line as it is; the name it captures, or NoKey.
ExistingVar(line) ==
  LET p == AfterExport(line)
  IN IF p = 0 \/ p > Len(line) \/ line[p] \notin UpperWords THEN NoKey
     ELSE LET j == RunEnd(line, p + 1, UpperWords \cup DigitWords)
          IN IF j < Len(line) /\ line[j + 1] = "=" THEN SubSeq(line, p, j) ELSE NoKey

\* The line setSSTEnv writes for a variable (1225): export KEY="value".
NewLine(key, value) == <<"export", Space>> \o key \o <<"=", "\"">> \o value \o <<"\"">>

\* The loop of 1224-1232 over the entries of variables not yet written:
\* the last line that holds the name is replaced, or the line is pushed.
RECURSIVE WriteVars(_, _, _, _)
WriteVars(old, lines, variables, left) ==
  IF left = {} THEN lines
  ELSE LET key == CHOOSE k \in left : TRUE
           found == {i \in 1..Len(old) : ExistingVar(old[i]) = key}
           line == NewLine(key, variables[key])
           next == IF found = {} THEN Append(lines, line)
                   ELSE [lines EXCEPT ![CHOOSE i \in found : \A j \in found : j <= i] = line]
       IN WriteVars(old, next, variables, left \ {key})

\* The text setSSTEnv writes (1204-1233) over the text it read; the text of
\* a file that does not exist is empty.
setSSTEnv(text, variables) ==
  JoinLines(WriteVars(SplitLines(text), SplitLines(text), variables, DOMAIN variables))
    \o <<NL>>

\* The quotes parseEnvFile strips from a value (start.ts 194-196).
Unquote(value) ==
  IF Len(value) >= 2
     /\ \/ value[1] = "\"" /\ value[Len(value)] = "\""
        \/ value[1] = "'" /\ value[Len(value)] = "'"
  THEN SubSeq(value, 2, Len(value) - 1)
  ELSE value

\* parseEnvFile's reading of a line (start.ts 189-198): the line is trimmed,
\* blank lines and comments are skipped, and /^(?:export\s+)?([\w.-]+)=(.*)/
\* gives the name and the value; <<>> when the line assigns nothing.
ParseLine(line) ==
  LET t == Trim(line)
      p == IF AfterExport(t) = 0 THEN 1 ELSE AfterExport(t)
      j == RunEnd(t, p, WordTokens \cup {".", "-"})
  IN IF t = <<>> \/ t[1] = "#" THEN <<>>
     ELSE IF j >= p /\ j < Len(t) /\ t[j + 1] = "="
     THEN <<[key |-> SubSeq(t, p, j), value |-> Unquote(SubSeq(t, j + 2, Len(t)))]>>
     ELSE <<>>

RECURSIVE ParseLines(_, _)
ParseLines(lines, env) ==
  IF lines = <<>> THEN env
  ELSE LET r == ParseLine(lines[1])
       IN ParseLines(Tail(lines),
                     IF r = <<>> THEN env ELSE Put(env, r[1].key, r[1].value))

\* parseEnvFile (start.ts 182-207): name -> value, a later line winning.
parseEnvFile(text) == ParseLines(SplitLines(text), [k \in {} |-> <<>>])

\* The names and values set-sst-env is called with, and the lines env.sh is
\* made of before the call.
EnvKeys == {<<"FOO">>, <<"BAR">>}
EnvValues == {<<"1">>, <<"two", Space, "words">>, <<"a", NL, "b">>}
EnvVariables == UNION {[ks -> EnvValues] : ks \in (SUBSET EnvKeys) \ {{}}}
EnvLines == {<<>>,
             <<"#", Space, "a">>,
             <<"export", Space, "OLD", "=", "\"", "0", "\"">>,
             <<"foo", "=", "0">>,
             <<Space, "export", Space, "FOO", "=", "0">>,
             <<"export", Space, "FOO", "=", "'", "0", "'">>}
MaxEnvLines == 2
EnvFiles == {JoinLines(ls) : ls \in UNION {[1..n -> EnvLines] : n \in 0..MaxEnvLines}}
MaxEnvLen == 15

\* A set-sst-env request (1204-1239); the handler has no await before the
\* write.  The reply records what parseEnvFile reads before and after.
SetSSTEnv(variables) ==
  /\ Len(envFile) <= MaxEnvLen
  /\ envFile' = setSSTEnv(envFile, variables)
  /\ last' = [op |-> "setenv", variables |-> variables,
              before |-> parseEnvFile(envFile), after |-> parseEnvFile(envFile')]
  /\ UNCHANGED <<notSup, sstProcess, logStream, logFile, pidFile, serverFile, wrappers, procs,
                 exitQ, closeQ, stop, lim, quietStops, workspaceB, logText>>

\* ------------------------------------------------- server: the log readers
\* The text of the log is a sequence of characters; Cross and CrossMark are
\* the characters U+2717 and U+274C of the last two patterns.
Cross == "U+2717"
CrossMark == "U+274C"

\* The upper-case letter of a lower-case one, the character itself otherwise
\* (the canonical form the flag i compares).
UpperOf ==
  [c \in {"a", "b", "c", "d", "e", "f", "g", "h", "i", "j", "k", "l", "m", "n", "o", "p", "q", "r", "s", "t", "u", "v", "w", "x", "y", "z"} |->
     CASE c = "a" -> "A" [] c = "b" -> "B" [] c = "c" -> "C" [] c = "d" -> "D" [] c = "e" ->
     "E" [] c = "f" -> "F" [] c = "g" -> "G" [] c = "h" -> "H" [] c = "i" -> "I" [] c = "j"
     -> "J" [] c = "k" -> "K" [] c = "l" -> "L" [] c = "m" -> "M" [] c = "n" -> "N" [] c =
     "o" -> "O" [] c = "p" -> "P" [] c = "q" -> "Q" [] c = "r" -> "R" [] c = "s" -> "S" [] c
     = "t" -> "T" [] c = "u" -> "U" [] c = "v" -> "V" [] c = "w" -> "W" [] c = "x" -> "X" []
     c = "y" -> "Y" [] c = "z" -> "Z"]
Canonical(ch) == IF ch \in DOMAIN UpperOf THEN UpperOf[ch] ELSE ch

\* RegExp.test for a pattern that is a literal text: the text occurs
\* somewhere in the line, compared exactly.
TestExactly(pattern, line) ==
  \E p \in 1..(Len(line) - Len(pattern.text) + 1) :
    \A k \in 1..Len(pattern.text) : line[p + k - 1] = pattern.text[k]

\* RegExp.test: the same, the characters compared in canonical form when
\* the pattern has the flag i.
Test(pattern, line) ==
  \E p \in 1..(Len(line) - Len(pattern.text) + 1) :
    \A k \in 1..Len(pattern.text) :
      IF pattern.i THEN Canonical(line[p + k - 1]) = Canonical(pattern.text[k])
      ELSE line[p + k - 1] = pattern.text[k]

\* errorPatterns (1081-1090).
errorPatterns ==
  <<[text |-> <<"e", "r", "r", "o", "r", ":">>, i |-> TRUE],
    [text |-> <<"e", "x", "c", "e", "p", "t", "i", "o", "n">>, i |-> TRUE],
    [text |-> <<"f", "a", "i", "l", "e", "d">>, i |-> TRUE],
    [text |-> <<"c", "a", "n", "n", "o", "t">>, i |-> TRUE],
    [text |-> <<"u", "n", "a", "b", "l", "e", " ", "t", "o">>, i |-> TRUE],
    [text |-> <<"[", "e", "r", "r", "o", "r", "]">>, i |-> TRUE],
    [text |-> <<CrossMark>>, i |-> FALSE],
    [text |-> <<Cross>>, i |-> FALSE]>>

\* Array.slice(start) (negative start counts from the end; -0 is 0).
Slice(array, start) ==
  LET from == IF start < 0 THEN (IF Len(array) + start < 0 THEN 0 ELSE Len(array) + start)
              ELSE (IF start > Len(array) THEN Len(array) ELSE start)
  IN SubSeq(array, from + 1, Len(array))

DEFAULT_LOG_LINES == 50
\* The argument lines when the caller leaves it out.
Undefined == 0 - 1

MsgNoLogFile == <<"No log file found. SST has not been started yet.">>
MsgLogEmpty == <<"Log file is empty.">>
MsgNoLog == <<"No log file found.">>
MsgNoErrors == <<"No errors found in logs.">>

\* getSSTLogs (1053-1069): the lines it keeps and the text it returns.
getSSTLogs(log, lines) ==
  IF ~log.exists THEN [lastLines |-> <<>>, text |-> MsgNoLogFile]
  ELSE LET n == IF lines = Undefined THEN DEFAULT_LOG_LINES ELSE lines
           allLines == SplitLines(log.text)
           lastLines == Slice(allLines, 0 - n)
       IN [lastLines |-> lastLines,
           text |-> IF JoinLines(lastLines) = <<>> THEN MsgLogEmpty ELSE JoinLines(lastLines)]

\* getSSTErrors (1071-1104): the lines it keeps and the text it returns.
getSSTErrors(log) ==
  IF ~log.exists THEN [errors |-> <<>>, text |-> MsgNoLog]
  ELSE LET lines == SplitLines(log.text)
           errors == SelectSeq(lines, LAMBDA line :
                       /\ \E i \in DOMAIN errorPatterns : Test(errorPatterns[i], line)
                       /\ Len(Trim(line)) > 0)
       IN [errors |-> errors,
           text |-> IF Len(errors) = 0 THEN MsgNoErrors ELSE JoinLines(errors)]

\* The lines the log is drawn from.
LineOk == <<"o", "k">>
LineError == <<"E", "r", "r", "o", "r", ":", " ", "x">>
LineErrors == <<"n", "o", " ", "e", "r", "r", "o", "r", "s">>
LineEmpty == <<>>
LineBlank == <<" ", " ">>
LineBracket == <<"[", "e", "r", "r", "o", "r", "]">>
LineUnable == <<"U", "n", "a", "b", "l", "e", " ", "T", "o">>
LineFailed == <<"F", "A", "I", "L", "E", "D">>
LineCannot == <<"C", "a", "n", "n", "o", "t">>
LineException == <<"e", "x", "c", "e", "p", "t", "i", "o", "n">>
LineCross == <<Cross, " ", "x">>
LineCrossMark == <<CrossMark>>
LogLines ==
  {LineOk, LineError, LineErrors, LineEmpty, LineBlank, LineBracket, LineUnable, LineFailed, LineCannot, LineException, LineCross, LineCrossMark}

MaxLogLines == 3
MaxLines == 4

RECURSIVE SeqsUpTo(_, _)
SeqsUpTo(S, n) ==
  IF n = 0 THEN {<<>>}
  ELSE LET shorter == SeqsUpTo(S, n - 1)
       IN shorter \cup {Append(s, x) : s \in {t \in shorter : Len(t) = n - 1}, x \in S}

\* The logs: absent, or up to MaxLogLines lines, with or without the newline
\* that ends the last one.
LogTexts ==
  {NoLogText} \cup
  {[exists |-> TRUE, text |-> JoinLines(ls) \o end] :
     ls \in SeqsUpTo(LogLines, MaxLogLines), end \in {<<>>, <<NL>>}}

GetSSTLogs(lines) ==
  /\ last' = [op |-> "getlogs", lines |-> lines, result |-> getSSTLogs(logText, lines)]
  /\ UNCHANGED <<notSup, supVarsButLast>>

GetSSTErrors ==
  /\ last' = [op |-> "geterrors", result |-> getSSTErrors(logText)]
  /\ UNCHANGED <<notSup, supVarsButLast>>

\* ------------------------------------------------ server: the tool handler

\* The tool names and workspaceRoot arguments a request is drawn from.  A
\* root is "valid" or fails one test of validateWorkspaceRoot: it is absent
\* ("missing"), not a string, relative, absolute and nonexistent, or an
\* existing absolute path with `.` or `..` segments ("noncanonical").  A
\* relative or noncanonical root names the workspace of the model.
Tools == {"start-sst-dev", "sst-deploy", "sst-version", "get-sst-status",
          "list-sst-stages", "no-such-tool"}
Roots == {"missing", "nonstring", "relative", "nonexistent", "noncanonical", "valid"}

MsgRateLimit == "Rate limit exceeded. Please try again later."
MsgUnknownTool == "Unknown tool: no-such-tool"
MsgRequired == "workspaceRoot is required and must be a string"
MsgAbsolute == "workspaceRoot must be an absolute path"
MsgNotExist == "workspaceRoot does not exist"
MsgComponents == "workspaceRoot contains invalid path components"
MsgPathType == "The \"path\" argument must be of type string"
MsgUnableToList == "Unable to list stages. Ensure AWS credentials are configured."
NoMsg == "none"

\* validateWorkspaceRoot (71-88): the message of the Error it throws, or NoMsg.
validateWorkspaceRoot(root) ==
  IF root \in {"missing", "nonstring"} THEN MsgRequired
  ELSE IF root = "relative" THEN MsgAbsolute
  ELSE IF root = "nonexistent" THEN MsgNotExist
  ELSE IF root = "noncanonical" THEN MsgComponents
  ELSE NoMsg

\* The handlers that call validateWorkspaceRoot first: startSSTDev (612),
\* sstDeploy (766), sstVersion (1417).  getSSTStatus (947) and listSSTStages
\* (1123) do not call it.
Validates(tool) == tool \in {"start-sst-dev", "sst-deploy", "sst-version"}

\* The Error thrown before the handler has changed anything, if any:
\* checkRateLimit (64-69), the default case of the switch (586-587), the
\* validation, and path.join on a root that is no string (getPIDPath, 948).
ThrownAtEntry(tool, root, allowed) ==
  IF ~allowed THEN MsgRateLimit
  ELSE IF tool = "no-such-tool" THEN MsgUnknownTool
  ELSE IF Validates(tool) THEN validateWorkspaceRoot(root)
  ELSE IF tool = "get-sst-status" /\ root \in {"missing", "nonstring"} THEN MsgPathType
  ELSE NoMsg

\* The catch of the tool handler (590-607): the response for a thrown Error.
ErrorResponse(message) == [isError |-> TRUE, text |-> <<"Error: ", message>>]
\* The response a handler returns itself.
TextResponse(message) == [isError |-> FALSE, text |-> <<message>>]

\* execSync of listSSTStages (1125-1128) with the root as cwd: a cwd that is
\* no string makes execSync throw before it spawns, a nonexistent one makes
\* the spawn fail; an absent cwd is the server's own directory.
ExecSyncSpawns(root) == root \in {"missing", "relative", "noncanonical", "valid"}

\* What the handler of a request does up to its first await, once nothing
\* was thrown at entry, and what it has answered by then.
Handle(tool, root) ==
  IF tool = "start-sst-dev" THEN
    /\ startSSTDev("none")
    /\ UNCHANGED <<notSup, lim, workspaceB, envFile, logText, pidFile, serverFile, procs, exitQ, closeQ, stop,
                   quietStops>>
  ELSE IF tool = "sst-deploy" THEN
    /\ sstDeploy(NextCall, "dev", FALSE)
    /\ UNCHANGED <<now, wf, lim, workspaceB, envFile, logText, sstProcess, logStream, pidFile,
                   serverFile, wrappers, procs, exitQ, closeQ, stop, quietStops>>
  ELSE IF tool = "sst-version" THEN
    /\ runSSTCommand(NextCall, "version", FALSE)
    /\ UNCHANGED <<now, wf, lim, workspaceB, envFile, logText, sstProcess, logStream, pidFile,
                   serverFile, wrappers, procs, exitQ, closeQ, stop, quietStops>>
  ELSE IF tool = "get-sst-status" THEN
    /\ pidFile' = IF root # "nonexistent" /\ StatusUnlinks THEN 0 ELSE pidFile
    /\ UNCHANGED <<notSup, lim, workspaceB, envFile, logText, sstProcess, logStream, logFile, serverFile,
                   wrappers, procs, exitQ, closeQ, stop, quietStops>>
  ELSE IF tool = "list-sst-stages" /\ ExecSyncSpawns(root) THEN
    /\ NextCall <= lim.calls
    /\ calls' = [calls EXCEPT ![NextCall] =
                   [NewCall("execSync", "list stages", <<"list stages">>, 0, FALSE)
                      EXCEPT !.proc = "sync", !.timer = "none"]]
    /\ UNCHANGED <<operationTimeouts, cancelHandlers, now, wf, supVarsButLast>>
  ELSE
    UNCHANGED <<timedVars, wf, supVarsButLast>>

\* The Error thrown inside the handler and caught by the handler itself
\* (listSSTStages 1143-1145), if any.
Swallowed(tool, root) ==
  IF tool = "list-sst-stages" /\ ~ExecSyncSpawns(root) THEN MsgUnableToList ELSE NoMsg

\* A tools/call request (526-608), up to the first await of its handler.
\* allowed is the answer of the rate limiter.
Request(tool, root, allowed) ==
  /\ tool \in Tools
  /\ root \in Roots
  /\ LET thrown == ThrownAtEntry(tool, root, allowed)
     IN /\ IF thrown # NoMsg
           THEN UNCHANGED <<timedVars, wf, supVarsButLast>>
           ELSE Handle(tool, root)
        /\ last' = [op |-> "request", tool |-> tool, root |-> root,
                    raised |-> IF thrown # NoMsg THEN thrown ELSE Swallowed(tool, root),
                    response |-> IF thrown # NoMsg THEN ErrorResponse(thrown)
                                 ELSE IF Swallowed(tool, root) # NoMsg
                                 THEN TextResponse(Swallowed(tool, root))
                                 ELSE TextResponse(NoMsg),
                    spawned |-> (calls' # calls \/ wrappers' # wrappers),
                    wrote |-> (logFile' # logFile \/ pidFile' # pidFile)]

\* ------------------------------------------- workflow: sst-restart-for-infra

WfIdle == [pc |-> "idle", stage |-> "none", steps |-> <<>>, call |-> 0,
           stopRes |-> <<>>, startRes |-> "none"]

Step1 == "Step 1: Stopping sst dev..."
Step2 == "Step 2: Deploying infrastructure..."
Step3 == "Step 3: Restarting sst dev..."

\* A variant that finds the texts in every message.
MentionsAlways(msg) == TRUE

\* msg.includes('not running') || msg.includes('no PID') (886), line by line:
\* of the lines stop.ts and stopSSTDev produce, only the no-PID-file line of
\* stdout holds either text.
NoCause == [kind |-> "none"]

MentionsNotRunning(msg) == \E i \in 1..Len(msg) : msg[i] = OutNoPidFile

\* The entry the stop step pushes (880-890).
StopStepEntry(res) ==
  IF res.ok THEN [mark |-> "ok", text |-> res.msg, cause |-> NoCause]
  ELSE IF MentionsNotRunning(res.msg)
  THEN [mark |-> "ok", text |-> <<"SST dev was not running (skipped stop)">>,
        cause |-> NoCause]
  ELSE [mark |-> "warn", text |-> <<"Stop encountered issue: ">> \o res.msg
                                   \o <<" (continuing anyway)">>,
        cause |-> NoCause]

\* The entry the deploy step pushes (899-904); cause is the message of the
\* error the deploy call was rejected with.
DeployStepEntry(call) ==
  IF call.outcome = "ok"
  THEN [mark |-> "ok", text |-> <<"SST deploy completed successfully.", call.key[2]>>,
        cause |-> NoCause]
  ELSE [mark |-> "fail", text |-> <<"Deploy failed: ">>, cause |-> call.error]

\* The entry the start step pushes (921-926).
StartStepEntry(answer) ==
  IF answer = "failed"
  THEN [mark |-> "fail", text |-> <<"Restart failed: ", "Failed to start SST process">>,
        cause |-> NoCause]
  ELSE [mark |-> "ok", text |-> <<answer>>, cause |-> NoCause]

ResultDeployFailed == "Infrastructure restart workflow FAILED at deploy step."
ResultRestartFailed == "Infrastructure deployed but sst dev restart failed."
ResultSuccess == "Infrastructure restart workflow completed successfully."

\* A variant that reports success whatever the start step answered.
StartStepResultAlwaysSuccess(answer) == ResultSuccess

\* The text the start step's outcome is reported with (927-944).
StartStepResult(answer) ==
  IF answer = "failed" THEN ResultRestartFailed ELSE ResultSuccess

WfReply(w, result) ==
  [op |-> "restart", result |-> result, steps |-> w.steps, stopRes |-> w.stopRes,
   call |-> w.call, startRes |-> w.startRes]

\* sstRestartForInfra up to its first await (860-880): the workflow marker is
\* appended to the log, then the stop script is spawned.
SstRestartForInfra(stage, spawnFails) ==
  /\ wf.pc = "idle"
  /\ NextCall <= lim.calls
  /\ stopSSTDev("wf", spawnFails)
  /\ logFile' = Append(logFile, <<"WfStarted">>)
  /\ wf' = [WfIdle EXCEPT !.pc = "stop", !.stage = stage, !.steps = <<Step1>>]
  /\ last' = NoReply
  /\ UNCHANGED <<timedVars, lim, workspaceB, envFile, logText, sstProcess, logStream, pidFile, serverFile, wrappers,
                 procs, exitQ, closeQ, quietStops>>

\* A variant that gives up when the stop step failed.
AbortsOnStopFailure(res) == res.ok

\* Whether the workflow goes on after the stop step: it always does (878-891).
ContinuesAfterStop(res) == TRUE

\* The stop step settles (880-894): its outcome is pushed and the 2 s pause
\* begins, whatever the outcome.
WfStopSettled ==
  /\ wf.pc = "stop"
  /\ stop.by = "wf"
  /\ stopOnClose
  /\ IF ContinuesAfterStop(StopResult)
     THEN /\ wf' = [wf EXCEPT !.pc = "pause1", !.stopRes = StopResult,
                              !.steps = Append(@, StopStepEntry(StopResult))]
          /\ last' = NoReply
     ELSE /\ wf' = WfIdle
          /\ last' = WfReply([wf EXCEPT !.stopRes = StopResult,
                                        !.steps = Append(@, StopStepEntry(StopResult))],
                             "Infrastructure restart workflow FAILED at stop step.")
  /\ UNCHANGED <<timedVars, lim, workspaceB, envFile, logText, logFile, pidFile, serverFile, procs, exitQ, closeQ>>

\* After the pause (896-899): the deploy command is spawned.
WfDeploy(spawnFails) ==
  /\ wf.pc = "pause1"
  /\ sstDeploy(NextCall, wf.stage, spawnFails)
  /\ wf' = [wf EXCEPT !.pc = "deploy", !.call = NextCall, !.steps = Append(@, Step2)]
  /\ last' = NoReply
  /\ UNCHANGED <<now, lim, workspaceB, envFile, logText, sstProcess, logStream, pidFile, serverFile, wrappers, procs,
                 exitQ, closeQ, stop, quietStops>>

\* A variant that goes on whatever the deploy step's outcome.
ContinuesWhateverDeploy(call) == TRUE

\* Whether the workflow goes on after the deploy step: only when it succeeded
\* (899-913).
ContinuesAfterDeploy(call) == call.outcome = "ok"

\* The deploy step settles (899-916): on success the second pause begins; on
\* failure the workflow returns.
WfDeploySettled ==
  /\ wf.pc = "deploy"
  /\ calls[wf.call].st = "settled"
  /\ LET pushed == [wf EXCEPT !.steps = Append(@, DeployStepEntry(calls[wf.call]))]
     IN IF ContinuesAfterDeploy(calls[wf.call])
        THEN /\ wf' = [pushed EXCEPT !.pc = "pause2"]
             /\ last' = NoReply
        ELSE /\ wf' = WfIdle
             /\ last' = WfReply(pushed, ResultDeployFailed)
  /\ UNCHANGED <<timedVars, supVarsButLast>>

\* After the pause (918-945): the start step, and the workflow returns.
WfStart(throwAt) ==
  /\ wf.pc = "pause2"
  /\ throwAt \in {"none", "fs", "spawn"}
  /\ startSSTDev(throwAt)
  /\ wf' = WfIdle
  /\ last' = WfReply([wf EXCEPT !.startRes = StartAnswer(throwAt),
                                !.steps = @ \o <<Step3, StartStepEntry(StartAnswer(throwAt))>>],
                     StartStepResult(StartAnswer(throwAt)))
  /\ UNCHANGED <<timedVars, lim, workspaceB, envFile, logText, pidFile, serverFile, procs, exitQ, closeQ, stop,
                 quietStops>>

\* ----------------------------------------------------------- specification

InitOther(l) ==
  /\ operationTimeouts = [k \in {} |-> 0]
  /\ cancelHandlers = [k \in {} |-> 0]
  /\ calls = [c \in 1..l.calls |-> NoCall]
  /\ now = 0
  /\ wf = WfIdle

\* env.sh does not exist.
NoEnvFile == <<>>

InitAll(l) == Init(l) /\ InitOther(l) /\ envFile = NoEnvFile /\ logText = NoLogText

Next ==
  \/ \E t \in {"none", "fs", "spawn"} : StartSSTDev(t)
  \/ \E w \in WrapperIds : ServerOnClose(w)
  \/ EnvChange
  \/ \E w \in WrapperIds, i \in 1..lim.inflight : WrapperKill(w, i)
  \/ \E w \in WrapperIds, i \in 1..lim.inflight : WrapperExit(w, i)
  \/ \E w \in WrapperIds, i \in 1..lim.inflight : WrapperSpawn(w, i)
  \/ \E p \in Pids : WrapperOnExit(p)
  \/ \E p \in Pids, clean \in BOOLEAN : DevExit(p, clean)
  \/ \E p \in Pids : DevReap(p)
  \/ \E p \in Pids : DescExit(p)
  \/ SstWritesServerFile
  \/ StopSSTDev(FALSE)
  \/ StopScriptBegin
  \/ StopScriptRecheck
  \/ StopScriptVerify
  \/ StopSSTDevDone
  \/ GetSSTStatus

Spec == InitAll([wrappers |-> MaxWrappers, spawns |-> MaxSpawns, inflight |-> MaxInFlight, calls |-> 0]) /\ [][Next]_vars

NextTimed ==
  \/ \E stage \in Stages, f \in BOOLEAN : SstDeploy(stage, f)
  \/ \E op \in RunOps, f \in BOOLEAN : RunSSTCommand(op, f)
  \/ \E c \in CallIds : TimerFire(c)
  \/ \E c \in CallIds : CallError(c)
  \/ \E c \in CallIds, code \in {0, 1, -1} : CallClose(c, code)
  \/ \E d \in {1, TickMs} : Tick(d)

SpecTimed ==
  InitAll([wrappers |-> 0, spawns |-> 0, inflight |-> 0, calls |-> MaxCalls])
    /\ [][NextTimed]_vars

\* The stop path alone: start, the wrapper's spawn, the dev process's exit and
\* its handler, the stop script and status, under bounds of its own.
StopWrappers == 1
StopSpawns == 1

NextStop ==
  \/ StartSSTDev("none")
  \/ \E w \in WrapperIds : WrapperSpawn(w, 1)
  \/ \E p \in Pids : WrapperOnExit(p)
  \/ \E p \in Pids : DevExit(p, FALSE)
  \/ \E p \in Pids : DevReap(p)
  \/ StopSSTDev(FALSE)
  \/ StopScriptBegin
  \/ StopScriptRecheck
  \/ StopScriptVerify
  \/ StopSSTDevDone
  \/ GetSSTStatus

SpecStop ==
  InitAll([wrappers |-> StopWrappers, spawns |-> StopSpawns, inflight |-> 1, calls |-> 0])
    /\ [][NextStop]_vars

\* Start and stop, with every way the spawn of the wrapper can fail, under
\* bounds of their own.
StartWrappers == 2
StartSpawns == 1

NextStart ==
  \/ \E t \in {"none", "fs", "spawn", "async"} : StartSSTDev(t)
  \/ \E w \in WrapperIds : ServerOnError(w)
  \/ \E w \in WrapperIds : ServerOnClose(w)
  \/ \E w \in WrapperIds : WrapperSpawn(w, 1)
  \/ \E p \in Pids : DevExit(p, FALSE)
  \/ \E p \in Pids : DevReap(p)
  \/ \E p \in Pids : WrapperOnExit(p)
  \/ StopSSTDev(FALSE)
  \/ StopScriptBegin
  \/ StopScriptRecheck
  \/ StopScriptVerify
  \/ StopSSTDevDone

SpecStart ==
  InitAll([wrappers |-> StartWrappers, spawns |-> StartSpawns, inflight |-> 1, calls |-> 0])
    /\ [][NextStart]_vars

\* Two workspace roots served by one server, under bounds of their own.
WsWrappers == 2
WsSpawns == 1

NextWs ==
  \/ StartSSTDev("none")
  \/ \E w \in WrapperIds : ServerOnClose(w)
  \/ \E w \in WrapperIds : WrapperSpawn(w, 1)
  \/ \E w \in WrapperIds : WrapperExit(w, 1)
  \/ \E p \in Pids : WrapperOnExit(p)
  \/ \E p \in Pids : DevReap(p)
  \/ SstWritesServerFile
  \/ StopSSTDev(FALSE)
  \/ StopScriptBegin
  \/ StopScriptRecheck
  \/ StopScriptVerify
  \/ StopSSTDevDone
  \/ \E t \in {"none", "fs", "spawn"} : StartSSTDevB(t)
  \/ ServerOnCloseB
  \/ StopSSTDevB
  \/ \E code \in {0, 1} : StopSSTDevBDone(code)

SpecWs ==
  InitAll([wrappers |-> WsWrappers, spawns |-> WsSpawns, inflight |-> 1, calls |-> 0])
    /\ [][NextWs]_vars

\* The timed commands on the event loop, with the synchronous list-sst-stages.
LoopCalls == 2

NextLoop ==
  \/ \E stage \in Stages, f \in BOOLEAN : OnLoop(SstDeploy(stage, f))
  \/ \E op \in RunOps, f \in BOOLEAN : OnLoop(RunSSTCommand(op, f))
  \/ OnLoop(ListSSTStages)
  \/ OnLoop(GetSSTStatus)
  \/ \E c \in CallIds : OnLoop(TimerFire(c))
  \/ \E c \in CallIds : OnLoop(CallError(c))
  \/ \E c \in CallIds, code \in {0, 1, -1} : OnLoop(CallClose(c, code))
  \/ \E c \in CallIds, code \in {0, 1} : ExecSyncReturns(c, code)
  \/ TickToDeadline

SpecLoop ==
  InitAll([wrappers |-> 0, spawns |-> 0, inflight |-> 0, calls |-> LoopCalls])
    /\ [][NextLoop]_vars

\* The tool handler with every kind of request, under bounds of its own.
ToolWrappers == 1
ToolCalls == 1

NextTools ==
  \/ \E tool \in Tools, root \in Roots, allowed \in BOOLEAN : OnLoop(Request(tool, root, allowed))
  \/ \E c \in CallIds : OnLoop(TimerFire(c))
  \/ \E c \in CallIds, code \in {0, 1, -1} : OnLoop(CallClose(c, code))
  \/ \E c \in CallIds, code \in {0, 1} : ExecSyncReturns(c, code)
  \/ TickToDeadline

SpecTools ==
  InitAll([wrappers |-> ToolWrappers, spawns |-> 0, inflight |-> 0, calls |-> ToolCalls])
    /\ [][NextTools]_vars

\* The timed commands alone, with the clock moving from deadline to deadline.
CmdCalls == 1

NextCmd ==
  \/ \E stage \in Stages, f \in BOOLEAN : SstDeploy(stage, f)
  \/ \E op \in RunOps, f \in BOOLEAN : RunSSTCommand(op, f)
  \/ \E v \in SecretValues, e \in BOOLEAN, f \in BOOLEAN : SstSecretSet(v, e, f)
  \/ \E c \in CallIds : TimerFire(c)
  \/ \E c \in CallIds : CallError(c)
  \/ \E c \in CallIds, code \in {0, 1, -1} : CallClose(c, code)
  \/ TickToDeadline

SpecCmd ==
  InitAll([wrappers |-> 0, spawns |-> 0, inflight |-> 0, calls |-> CmdCalls])
    /\ [][NextCmd]_vars

\* set-sst-env on the env.sh files of EnvFiles.
NextEnv == \E variables \in EnvVariables : SetSSTEnv(variables)

SpecEnv ==
  /\ Init([wrappers |-> 0, spawns |-> 0, inflight |-> 0, calls |-> 0])
  /\ InitOther([wrappers |-> 0, spawns |-> 0, inflight |-> 0, calls |-> 0])
  /\ envFile \in EnvFiles
  /\ logText = NoLogText
  /\ [][NextEnv]_vars

\* The readers of the log over every log of LogTexts.
NextLogs ==
  \/ \E lines \in (0..MaxLines) \cup {Undefined} : GetSSTLogs(lines)
  \/ GetSSTErrors

SpecLogs ==
  /\ Init([wrappers |-> 0, spawns |-> 0, inflight |-> 0, calls |-> 0])
  /\ InitOther([wrappers |-> 0, spawns |-> 0, inflight |-> 0, calls |-> 0])
  /\ envFile = NoEnvFile
  /\ logText \in LogTexts
  /\ [][NextLogs]_vars

\* The workflow, with the dev process it stops and restarts and its deploy
\* command, under bounds of its own.
WfWrappers == 2
WfSpawns == 1
WfCalls == 1

NextWf ==
  \/ StartSSTDev("none")
  \/ \E w \in WrapperIds : WrapperSpawn(w, 1)
  \/ \E p \in Pids : WrapperOnExit(p)
  \/ \E p \in Pids : DevReap(p)
  \/ StopScriptBegin
  \/ StopScriptRecheck
  \/ StopScriptVerify
  \/ \E f \in BOOLEAN : SstRestartForInfra("dev", f)
  \/ WfStopSettled
  \/ \E f \in BOOLEAN : WfDeploy(f)
  \/ \E c \in CallIds : TimerFire(c)
  \/ \E c \in CallIds : CallError(c)
  \/ \E c \in CallIds, code \in {0, 1, -1} : CallClose(c, code)
  \/ TickToDeadline
  \/ WfDeploySettled
  \/ \E t \in {"none", "fs", "spawn"} : WfStart(t)

SpecWf ==
  InitAll([wrappers |-> WfWrappers, spawns |-> WfSpawns, inflight |-> 1,
           calls |-> WfCalls])
    /\ [][NextWf]_vars

\* ------------------------------------------------------------------ claims

\* C1: in every reachable state at most one live `sst dev` subprocess spawned
\* by the supervisor exists for the workspace.
C1_AtMostOneLiveDev == Cardinality(LiveDevs) <= 1

\* C2: a start-sst-dev issued while the PID file exists and its PID is live is
\* answered with the already-running reply, spawns no process and leaves the
\* log file and the PID file unchanged.
C2_StartWhileLiveIsNoOp ==
  (last.op = "start" /\ last.pidLive) =>
    (last.res = "already" /\ ~last.spawned /\ last.logSame /\ last.pidSame)

\* A stop reply classified as not running: the script found no PID file, or
\* found the recorded process already gone.
SaysNotRunning(msg) ==
  \E i \in 1..Len(msg) : msg[i] \in {OutNoPidFile, OutAlreadyStopped}

\* C9: a stop-sst-dev that finds the dev process already stopped (and during
\* which none is started) succeeds, classified as not running, and leaves no
\* PID file; so do two such stops in a row.
C9_StopWhenStoppedIsIdempotent ==
  (last.op = "stop" /\ last.ran /\ last.quiet) =>
    (last.res.ok /\ SaysNotRunning(last.res.msg) /\ last.pidFileAfter = 0)

\* C9's case: the second of two stops in a row has completed with the dev
\* process already stopped.
C9_Witness ==
  last.op = "stop" /\ last.ran /\ last.quiet /\ quietStops = 2

\* C9's other case: a stop that found a stale PID file.
C9_WitnessStale ==
  last.op = "stop" /\ last.ran /\ last.quiet /\ last.pid # 0

\* C10: a successful stop that signalled the recorded process has signalled
\* every descendant as well, and neither the process nor a descendant of it
\* is alive afterwards.
C10_StopTerminatesDescendants ==
  (last.op = "stop" /\ last.res.ok /\ last.sigs # <<>>) =>
    /\ ~last.pidAlive
    /\ ~last.descAlive
    /\ \E i \in 1..Len(last.sigs) : last.sigs[i].to = "descendants"

\* C3: when the deadline of a timed command fires while its process has not
\* exited, the cancellation handler registered for that command is invoked
\* (SIGTERM goes to that command's process) before the call fails, and the
\* call fails with a timeout error naming the operation and the duration.
C3_TimeoutCancelsTheCommand ==
  \A c \in Started :
    (calls[c].outcome = "timeout" /\ calls[c].procAtTimeout = "live") =>
      /\ calls[c].termAtTimeout
      /\ calls[c].error = [kind |-> "timeout", operation |-> calls[c].op,
                           ms |-> calls[c].ms]

\* C4: once a timed command call has settled, its timer is no longer pending
\* nor stored in operationTimeouts, and its cancellation handler is no longer
\* registered in cancelHandlers.
C4_SettledCallLeavesNothing ==
  \A c \in Started :
    calls[c].st = "settled" =>
      /\ calls[c].timer # "pending"
      /\ \A op \in DOMAIN operationTimeouts : operationTimeouts[op] # c
      /\ \A k \in DOMAIN cancelHandlers : cancelHandlers[k] # c

\* The step log entry carries the message in full.
Preserves(entry, msg) ==
  \E i \in 0..(Len(entry.text) - Len(msg)) :
    SubSeq(entry.text, i + 1, i + Len(msg)) = msg

\* The deploy call of a finished workflow failed.
DeployFailed(reply) ==
  reply.call # 0 /\ calls[reply.call].outcome \in {"failed", "spawnfail", "timeout"}

\* C5: when the deploy step of sst-restart-for-infra fails (nonzero exit, spawn
\* failure or timeout), the workflow returns the failed-at-deploy result, its
\* step log is the stop step's result followed by the deploy failure message,
\* and the start step was not attempted.
C5_DeployFailureAborts ==
  (last.op = "restart" /\ DeployFailed(last)) =>
    /\ last.result = ResultDeployFailed
    /\ Len(last.steps) = 4
    /\ last.steps[1] = Step1
    /\ Preserves(last.steps[2], last.stopRes.msg)
    /\ last.steps[3] = Step2
    /\ last.steps[4].mark = "fail"
    /\ last.steps[4].text = <<"Deploy failed: ">>
    /\ last.steps[4].cause = calls[last.call].error
    /\ last.startRes = "none"

\* C5's case: the workflow has returned after a stop step that succeeded and a
\* deploy that timed out.
C5_Witness ==
  /\ last.op = "restart"
  /\ DeployFailed(last)
  /\ calls[last.call].outcome = "timeout"
  /\ last.stopRes.ok

\* The headers of the step log, in the order the steps run.
StepHeader(n) == IF n = 1 THEN Step1 ELSE IF n = 2 THEN Step2 ELSE Step3

\* A step log in execution order: header n at position 2n-1, the outcome of
\* step n at position 2n.
InOrder(steps) ==
  /\ Len(steps) <= 6
  /\ \A n \in 1..3 : (2 * n - 1 <= Len(steps)) => steps[2 * n - 1] = StepHeader(n)
  /\ \A n \in 1..3 : (2 * n <= Len(steps)) => steps[2 * n].mark \in {"ok", "warn", "fail"}

\* C6: sst-restart-for-infra runs stop, deploy, start in this order: while the
\* deploy command is spawned the workflow's stop script has settled, the start
\* step is reached only after a successful deploy, and the step log holds, in
\* execution order, the outcome of every attempted step with its message in
\* full.
C6_StepsInOrder ==
  /\ InOrder(wf.steps)
  /\ (wf.pc \in {"deploy", "pause2"}) =>
       (stop.pc = "idle" /\ Len(wf.steps) >= 2 /\ wf.call # 0)
  /\ (wf.pc = "pause2") => calls[wf.call].outcome = "ok"
  /\ (last.op = "restart") =>
       /\ InOrder(last.steps)
       /\ Len(last.steps) \in {4, 6}
       /\ Preserves(last.steps[2], last.stopRes.msg)
       /\ DeployFailed(last) =>
            (Len(last.steps) = 4 /\ last.steps[4].cause = calls[last.call].error)
       /\ (last.startRes # "none") =>
            /\ calls[last.call].outcome = "ok"
            /\ Len(last.steps) = 6
            /\ last.steps[4].mark = "ok"
            /\ last.steps[6].mark = (IF last.startRes = "failed" THEN "fail" ELSE "ok")

\* C6's case: all three steps ran, after a stop step that failed with a
\* message of its own.
C6_Witness ==
  /\ last.op = "restart"
  /\ Len(last.steps) = 6
  /\ ~last.stopRes.ok
  /\ last.startRes = "started"

\* C7: a failure of the stop step never ends the workflow: the failure is
\* recorded in the step log and the deploy step is attempted before the
\* workflow returns.
C7_StopFailureNeverAborts ==
  /\ (last.op = "restart") => (last.call # 0 /\ Len(last.steps) >= 4)
  /\ (last.op = "restart" /\ ~last.stopRes.ok) =>
       /\ last.steps[2].mark \in {"ok", "warn"}
       /\ last.steps[3] = Step2
       /\ calls[last.call].st = "settled"
  /\ (wf.pc \in {"pause1", "deploy", "pause2"}) => wf.steps[2].mark \in {"ok", "warn"}

\* C7's case: the stop step failed and the workflow returned after its deploy
\* step.
C7_Witness ==
  /\ last.op = "restart"
  /\ ~last.stopRes.ok
  /\ last.call # 0
  /\ calls[last.call].outcome = "ok"

\* C8: when the deploy step succeeded and the start step failed, the result
\* says the infrastructure was deployed but the restart failed, and the
\* workflow gives that result in no other case; the full-success result is a
\* different one.
C8_RestartFailureIsReported ==
  /\ ResultRestartFailed # ResultSuccess
  /\ (last.op = "restart" /\ last.startRes # "none") =>
       /\ calls[last.call].outcome = "ok"
       /\ (last.startRes = "failed") <=> (last.result = ResultRestartFailed)
       /\ (last.startRes # "failed") <=> (last.result = ResultSuccess)

\* C8's case: the workflow has returned after a successful deploy and a start
\* step that threw.
C8_Witness ==
  /\ last.op = "restart"
  /\ last.startRes = "failed"
  /\ calls[last.call].outcome = "ok"

\* A step in which the stop script ends.
StopScriptEnds == stop.pc \in {"spawned", "wait1", "wait2"} /\ stop'.pc = "exited"

\* C11: when the stop script ends with the recorded process still in the
\* process table (after SIGTERM and SIGKILL), it ends with code 1 and leaves
\* the PID file as it is, and stop-sst-dev is answered with an error; the
\* script removes the PID file only in a step in which the recorded process
\* is no longer in the process table.
C11_StopFailureKeepsPidFile ==
  /\ [][StopScriptEnds =>
          /\ (stop'.pid # 0 /\ InTable(stop'.pid)) => (stop'.code = 1 /\ pidFile' = pidFile)
          /\ (pidFile' # pidFile) => (stop'.pid # 0 /\ ~InTable(stop'.pid))]_vars
  /\ []((stop.pc = "exited" /\ stop.code = 1) => ~StopResult.ok)
  /\ []((last.op = "stop" /\ last.ran /\ last.pid # 0 /\ last.stillThere) => ~last.res.ok)

\* C11's case: stop-sst-dev has been answered after a run of the script that
\* sent SIGTERM and SIGKILL and still found the process; the PID file is there.
C11_Witness ==
  /\ last.op = "stop"
  /\ last.stillThere
  /\ Len(last.sigs) = 2
  /\ ~last.res.ok
  /\ last.pidFileAfter = last.pid

\* C12: the supervisor is never stuck: a start-sst-dev issued while no dev
\* process exists for the workspace and nothing is in progress is not
\* answered with already-running.
C12_StartAcceptedWhenNoDev ==
  (last.op = "start" /\ last.idle) => last.res # "already"

\* The last line of the log is the end marker the server writes.
EndMarkerWritten == logFile # <<>> /\ logFile[Len(logFile)][1] = "DevEnded"

\* C13: once a dev process has exited and every event of its exit has been
\* handled (no dev process is left, nothing is in progress), the end marker
\* is the last line of the log, the server's log stream is closed, the PID
\* file is gone and the server's handle is cleared.
C13_DevExitLeavesStopped ==
  (SpawnedDevs # {} /\ NoDevAndIdle) =>
    /\ EndMarkerWritten
    /\ logStream = 0
    /\ pidFile = 0
    /\ sstProcess = 0

\* C14: a get-sst-status that finds a PID file whose PID is not in the
\* process table answers running:false, and the PID file does not exist
\* when it has answered.
C14_StatusRemovesStalePidFile ==
  (last.op = "status" /\ last.stale) => (~last.running /\ pidFile = 0)

\* C14's case: a status check has answered after finding the PID file of a
\* dev process that had exited.
C14_Witness ==
  /\ last.op = "status"
  /\ last.stale
  /\ \E p \in Pids : procs[p].st = "dead"

\* C15: no dev process is spawned for a change of env.sh that comes after a
\* successful stop-sst-dev and before the next start-sst-dev that starts a
\* wrapper.
C15_NoRestartAfterStop ==
  [][\A w \in WrapperIds : \A i \in 1..Len(wrappers[w].inv) :
       (/\ wrappers[w].inv[i].afterStop
        /\ wrappers'[w].st = "run"
        /\ wrappers'[w].inv = RemoveAt(wrappers[w].inv, i))
         => SpawnedDevs' = SpawnedDevs]_vars

\* The dev processes a wrapper has spawned, and the last of them.
DevsOf(w) == {p \in Pids : procs[p].st # "none" /\ procs[p].owner = w}
LastDevOf(w) == CHOOSE p \in DevsOf(w) : \A q \in DevsOf(w) : q <= p

\* Wrapper w, the only one, has restarted its dev process for a change of
\* env.sh and is done with every change and every exit event; the process it
\* spawned last is running and no stop script runs.
RestartHandled(w) ==
  /\ SpawnedWrappers = {w}
  /\ wrappers[w].st = "run"
  /\ wrappers[w].inv = <<>>
  /\ exitQ = {}
  /\ stop.pc = "idle"
  /\ Cardinality(DevsOf(w)) >= 2
  /\ \A p \in Pids : procs[p].st # "dying"
  /\ procs[LastDevOf(w)].st = "live"

\* C16: once the restart for a change of env.sh has been handled, the dev
\* process spawned last is the only one live and the PID file holds its PID.
C16_RestartLeavesOneDev ==
  \A w \in WrapperIds :
    RestartHandled(w) => (LiveDevs = {LastDevOf(w)} /\ pidFile = LastDevOf(w))

\* The `*.server` marker is stale: it exists, and neither a dev process nor
\* a descendant of one does.
StaleMarker == serverFile /\ \A p \in Pids : ~InTable(p) /\ procs[p].desc # "live"

\* C17: a wrapper started by start-sst-dev that finds a stale `*.server`
\* marker does not give up: it never exits from its first startProcess over
\* a stale marker (it removes the marker and spawns the dev process).
C17_StaleMarkerIsRemoved ==
  [][\A w \in WrapperIds :
       (wrappers[w].st = "run" /\ ~wrappers[w].watching /\ StaleMarker)
         => wrappers'[w].st = "run"]_vars

\* C18: a start-sst-dev whose spawn fails is answered with the error, and
\* when it is answered the log stream is closed and the handle cleared.
C18_SpawnFailureIsSurfaced ==
  (last.op = "start" /\ last.spawnFailed) =>
    (last.res = "failed" /\ logStream = 0 /\ sstProcess = 0)

\* C19: operations on different workspaces are independent: a start-sst-dev
\* for the second workspace that does not throw launches its wrapper whether
\* or not one is running for the first, and a stop-sst-dev for the second
\* workspace leaves the handle and the log stream of the first as they were.
C19_WorkspacesAreIndependent ==
  /\ [](last.op = "startB" /\ ~last.threw => last.res = "started" /\ last.spawned)
  /\ [][last'.op = "stopB" /\ sstProcess > 0 =>
         sstProcess' = sstProcess /\ logStream' = logStream]_vars

\* A timed command call whose handler has not answered yet.
InFlight == {c \in Started : calls[c].st = "running"}

\* C20: at most one SST operation runs at a time in a workspace: while a
\* timed command is in flight, no step spawns the external command of another.
C20_OneOperationAtATime ==
  [][InFlight # {} =>
       \A c \in CallIds : (calls[c].st = "none" /\ calls'[c].st # "none")
                             => calls'[c].proc # "live"]_vars

\* An external command started by a handler is still running.
CommandRunning == \E c \in Started : calls[c].proc \in {"live", "sync"}

\* C21: while an external command started by any handler is running, the
\* server can run the get-sst-status handler: no handler keeps the event
\* loop for the duration of its subprocess.
C21_StatusAnsweredWhileCommandRuns ==
  CommandRunning => ENABLED OnLoop(GetSSTStatus)

\* The response of the tool handler to a timed command call that has
\* settled: the handler's catch (590-607) for a rejection, the text the
\* command's handler resolved with otherwise.
CallResponse(c) ==
  IF calls[c].outcome \in {"failed", "timeout", "spawnfail"}
  THEN ErrorResponse(calls[c].error)
  ELSE TextResponse(calls[c].outcome)

\* C22: every error raised while a tool call is handled (rate limit, unknown
\* tool, validation failure, command failure, timeout) is answered with the
\* error-shaped response: isError true and the text `Error: <message>`.
C22_ErrorsAreErrorShaped ==
  /\ (last.op = "request" /\ last.raised # NoMsg) =>
       last.response = ErrorResponse(last.raised)
  /\ \A c \in Started :
       (calls[c].st = "settled" /\ calls[c].outcome # "ok") =>
         CallResponse(c) = ErrorResponse(calls[c].error)

\* C23: a request whose workspaceRoot is missing, not a string, relative,
\* nonexistent or not canonical is answered with an error response, and its
\* handler has spawned no process and created, changed or deleted no file.
C23_InvalidRootIsRejectedFirst ==
  (last.op = "request" /\ last.tool # "no-such-tool" /\ last.root # "valid") =>
    (last.response.isError /\ ~last.spawned /\ ~last.wrote)

\* The state directory .sst exists: the log, the PID file and the `*.server`
\* marker are the files of the model that live in it.
SstDirExists == logFile # <<>> \/ pidFile # 0 \/ serverFile

\* C24: when start-sst-dev answers success on a workspace without a state
\* directory, the state directory exists, the log begins with the start
\* marker and the PID file holds the PID of a live dev process; and a
\* get-sst-status that follows the answer reports running with that PID.
C24_StartOnFreshWorkspace ==
  /\ [][(~SstDirExists /\ last'.op = "start" /\ last'.res = "started") =>
         (SstDirExists' /\ logFile'[1] = <<"DevStarted">>
            /\ pidFile' # 0 /\ pidFile' \in LiveDevs')]_vars
  /\ [][(last.op = "start" /\ last.res = "started" /\ last'.op = "status") =>
         (last'.running /\ last'.pid = pidFile' /\ pidFile' # 0)]_vars

\* The command of call c has exited with a nonzero code.
ExitedNonzero(c) == calls[c].closed # <<>> /\ calls[c].closed[1] > 0

\* C25: when the command of a runSSTCommand or sst-deploy call exits with a
\* nonzero code, the call never resolves as a success, and the call that was
\* still pending at that exit fails with an error that carries the exit
\* code and all the command wrote to stderr and to stdout.
C25_NonzeroExitFailsWithOutput ==
  /\ [](\A c \in Started : ExitedNonzero(c) => calls[c].outcome \in {"failed", "timeout"})
  /\ [](\A c \in Started : (ExitedNonzero(c) /\ calls[c].outcome = "failed") =>
          /\ calls[c].error.code = calls[c].closed[1]
          /\ calls[c].error.stderr = calls[c].stderr
          /\ calls[c].error.stdout = calls[c].stdout)
  /\ [][\A c \in Started :
          (calls[c].st = "running" /\ ~ExitedNonzero(c) /\ ExitedNonzero(c)') =>
            calls'[c].outcome = "failed"]_vars

\* A pending deploy or command call has failed on exit code 1.
C25_Witness ==
  \E c \in Started :
    /\ ExitedNonzero(c)
    /\ calls[c].outcome = "failed"
    /\ calls[c].error.code = 1

Words(seq) == {seq[i] : i \in 1..Len(seq)}

\* The words of the error message call c was rejected with.
ErrorWords(c) ==
  IF calls[c].outcome = "failed"
  THEN Words(calls[c].error.stderr) \cup Words(calls[c].error.stdout)
  ELSE {}

\* The words of the entries call c has logged.
LoggedWords(c) == UNION {Words(calls[c].logged[i].words) : i \in 1..Len(calls[c].logged)}

\* C26: the value given to sst-secret-set occurs in no error message returned
\* to the caller and in no logged line, so that two runs that differ in the
\* value alone return the same messages and log the same lines.
C26_SecretValueNeverLeaks ==
  \A c \in Started :
    calls[c].op = "secret set" =>
      calls[c].args[4] \notin (ErrorWords(c) \cup LoggedWords(c))

\* C27: after set-sst-env has written variables to an env.sh that holds other
\* variables, parseEnvFile reads every written name with the written value,
\* and every other name with the value it had before.
C27_EnvRoundTrip ==
  (last.op = "setenv" /\ DOMAIN last.variables \cap DOMAIN last.before = {}) =>
    /\ \A k \in DOMAIN last.variables :
         k \in DOMAIN last.after /\ last.after[k] = last.variables[k]
    /\ \A k \in DOMAIN last.before :
         k \in DOMAIN last.after /\ last.after[k] = last.before[k]

\* C28: get-sst-logs with lines = n returns the last n lines of the log, for
\* every n >= 0: never more than n lines, and all of them when the log has
\* fewer than n.  The lines of the log are taken as the handler takes them,
\* the pieces between the newlines.
C28_LastNLines ==
  (last.op = "getlogs" /\ logText.exists /\ last.lines # Undefined) =>
    LET allLines == SplitLines(logText.text)
        kept == last.result.lastLines
    IN /\ Len(kept) <= last.lines
       /\ Len(allLines) <= last.lines => kept = allLines
       /\ Len(allLines) > last.lines =>
            kept = SubSeq(allLines, Len(allLines) - last.lines + 1, Len(allLines))
       /\ JoinLines(kept) # <<>> => last.result.text = JoinLines(kept)

\* The lines of LogLines that hold one of: error:, exception, failed, cannot,
\* unable to, [ERROR] (in any case), U+274C, U+2717.
MatchingLines ==
  {LineError, LineBracket, LineUnable, LineFailed, LineCannot, LineException,
   LineCross, LineCrossMark}

SigKill == [sig |-> "SIGKILL", to |-> "pid"]
SigTerm == [sig |-> "SIGTERM", to |-> "pid"]

\* C30: the stop script sends SIGKILL only in the step that follows its 2 s
\* wait, after it has sent SIGTERM, and only when the process it signalled is
\* still in the process table at that moment; when the process has gone
\* during the wait, the script goes on without sending SIGKILL.
C30_KillOnlyAfterGrace ==
  /\ [][(Len(stop'.sigs) > Len(stop.sigs) /\ stop'.sigs[Len(stop'.sigs)] = SigKill) =>
          /\ stop.pc = "wait1"
          /\ stop.sigs = <<SigTerm>>
          /\ InTable(stop.pid)
          /\ stop'.sigs = <<SigTerm, SigKill>>]_vars
  /\ [][(stop.pc = "wait1" /\ stop'.pc # "wait1" /\ ~InTable(stop.pid)) =>
          /\ stop'.sigs = <<SigTerm>>
          /\ stop'.pc = "exited"]_vars
  /\ [](\A i \in 1..Len(stop.sigs) :
          stop.sigs[i] = SigKill => (i = 2 /\ stop.sigs[1] = SigTerm))

\* C30's case: the script has sent SIGKILL after SIGTERM and waits its 1 s.
C30_Witness ==
  /\ stop.pc = "wait2"
  /\ stop.sigs = <<SigTerm, SigKill>>

\* C31: get-sst-status is read-only: a step in which it answers spawns and
\* ends no process, leaves the log file, the server's handle and log stream,
\* the wrappers, the pending events and the stop script as they are, leaves
\* the PID file of a process that is in the process table as it is, and
\* changes the PID file in one way only, by deleting one whose PID is not in
\* the process table.
C31_StatusIsReadOnly ==
  [][(last'.op = "status" /\ last' # last) =>
       /\ UNCHANGED <<procs, wrappers, logFile, logText, envFile, serverFile, sstProcess,
                      logStream, exitQ, closeQ, stop, workspaceB, notSup>>
       /\ PidFileLive => pidFile' = pidFile
       /\ pidFile' # pidFile => (pidFile' = 0 /\ ~InTable(pidFile))]_vars

\* C31's case: a status check has answered running:true of a live dev
\* process whose wrapper the server holds, and the PID file holds its PID.
C31_Witness ==
  /\ last.op = "status"
  /\ last.running
  /\ pidFile = last.pid
  /\ sstProcess # 0
  /\ procs[last.pid].st = "live"

IsPrefix(s, t) == Len(s) <= Len(t) /\ SubSeq(t, 1, Len(s)) = s

\* A step that leaves a log of which the log before is not a prefix.
LogTruncated == ~IsPrefix(logFile, logFile')

\* A step that is a start-sst-dev, or the start step of the workflow.
StartStep == last' # last /\ last'.op \in {"start", "restart"}
StartStepAnswer == IF last'.op = "start" THEN last'.res ELSE last'.startRes

\* The steps the claim names as keeping the log: a deploy is spawned, the
\* workflow writes its marker, a start is rejected as already running.
DeploySpawned == \E c \in CallIds : calls[c] = NoCall /\ calls'[c] # NoCall /\ calls'[c].kind = "deploy"
WorkflowMarker == wf.pc = "idle" /\ wf'.pc # "idle"
StartRejected == StartStep /\ StartStepAnswer = "already"

ServerStreams == IF logStream > 0 THEN {<<"server", logStream>>} ELSE {}
WrapperStreams ==
  {<<"wrapper", p>> : p \in {q \in Pids : /\ procs[q].st # "none"
                                          /\ wrappers[procs[q].owner].st = "run"
                                          /\ (InTable(q) \/ q \in exitQ)}}
DeployStreams ==
  {<<"deploy", c>> : c \in {d \in Started : /\ calls[d].kind = "deploy"
                                            /\ calls[d].proc \in {"live", "failed"}}}
LogWriters == ServerStreams \cup WrapperStreams \cup DeployStreams

\* The wrappers with a startProcess under way that will write the PID file.
PidWriters == {w \in WrapperIds : wrappers[w].st = "run" /\ wrappers[w].inv # <<>>}

\* C33: at any time at most one writer has the log file open for writing,
\* and at most one writer is writing the PID file.
C33_OneWriter ==
  /\ Cardinality(LogWriters) <= 1
  /\ Cardinality(PidWriters) <= 1

\* The dev processes that are live and are the current child of a running
\* wrapper; the wrapper wrote the PID of each in the step that spawned it.
CurrentLiveDevs ==
  {p \in LiveDevs : wrappers[procs[p].owner].st = "run" /\ wrappers[procs[p].owner].child = p}

\* C34: whenever a dev process is alive and is the current child of the
\* wrapper that spawned it, the PID file exists and holds its PID (stated
\* for the runs in which the server has started one wrapper only, so that
\* one dev process at most is live).
C34_LiveDevHasPidFile ==
  (Cardinality(SpawnedWrappers) = 1) => \A p \in CurrentLiveDevs : pidFile = p

\* The step is the 'close' handler the server registered on wrapper w.
ClosesWrapper(w) == w \in closeQ /\ closeQ' = closeQ \ {w}

\* C35: the 'close' event of a wrapper started by an earlier start-sst-dev
\* never clears the handle nor ends the log stream that belong to a wrapper
\* started by a later start-sst-dev.
C35_CloseOfEarlierWrapperKeepsLater ==
  [][\A w \in WrapperIds :
       ClosesWrapper(w) =>
         /\ sstProcess > w => sstProcess' = sstProcess
         /\ logStream > w => logStream' = logStream]_vars

\* The wrappers spawned by start-sst-dev whose 'close' the server has not
\* handled yet: running, failed to spawn, or exited with 'close' pending.
UnclosedWrappers ==
  {w \in WrapperIds : wrappers[w].st \in {"run", "spawnfail"} \/ w \in closeQ}

\* The step is the 'close' handler of a stop script.
StopCloses == stop.pc \in {"exited", "spawnerr"} /\ stop'.pc = "idle"

\* C36: stop-sst-dev clears the handle and closes the log stream only when
\* the wrapper the handle refers to no longer runs, and the handle is set
\* exactly when a wrapper spawned by start-sst-dev has not yet closed.
C36_HandleTracksWrapper ==
  /\ [][(StopCloses /\ sstProcess > 0) => sstProcess \notin UnclosedWrappers]_vars
  /\ []((sstProcess > 0) <=> (UnclosedWrappers # {}))

\* C37: each timed call in flight has its own timer pending until it
\* settles, and no timer stays pending for a settled call, also when two
\* calls with the same operation name overlap.
C37_OneTimerPerCall ==
  \A c \in Started :
    /\ calls[c].st = "running" => calls[c].timer = "pending"
    /\ calls[c].st = "settled" => calls[c].timer # "pending"

\* The deploys whose command has been spawned and has not closed.
DeploysInFlight == {c \in Started : calls[c].kind = "deploy" /\ calls[c].proc = "live"}

\* The step is the firing of the timer of call c.
TimerFires(c) == calls[c].timer = "pending" /\ calls'[c].timer = "fired"

\* C38: every deploy in flight has a cancellation handler registered until
\* its own command closes, and the handler invoked when a deploy times out
\* signals the command of that deploy alone, also when two deploys of the
\* same stage overlap.
C38_DeployKeepsItsCancelHandler ==
  /\ [](\A c \in DeploysInFlight : \E k \in DOMAIN cancelHandlers : cancelHandlers[k] = c)
  /\ [][\A c \in DeploysInFlight : \A d \in Started :
          (TimerFires(c) /\ ~calls[d].termSent /\ calls'[d].termSent) => d = c]_vars

\* C39: no sst-deploy writes to its log stream after ending it, whatever the
\* order of the command's 'error' and 'close' events.
C39_NoWriteAfterEnd ==
  \A c \in Started : calls[c].kind = "deploy" => ~calls[c].writeAfterEnd

====
